---------------------------- MODULE Spec2Model ----------------------------
(***************************************************************************)
(* Verification model of the rate-limit path of the API gateway:           *)
(*   - the override resolver and the POST /v1/ratelimits.limit handler     *)
(*     (registerV1RatelimitLimit),                                         *)
(*   - the stale-while-revalidate cache (SwrCache) with its single-flight  *)
(*     map,                                                                *)
(*   - the sliding-window counter behind the RateLimiter interface and     *)
(*     the origin-node coordination between the nodes of a cluster.        *)
(* Each part has its own specification over its own group of variables;    *)
(* the variables of the other parts stay at their initial values.          *)
(***************************************************************************)
EXTENDS Integers, Sequences, FiniteSets, Bags, TLC

VARIABLES
    \* ---- override resolver (loader closure of the limit handler)
    ovs,        \* dbRes.overrides: the namespace's overrides, in stored order
    ident,      \* req.identifier
    resolved,   \* what the loader returned as `override`
    \* ---- SwrCache over a MemoryStore, one (namespace, key)
    state,          \* MemoryStore.state: the entry stored for the key
    revalidating,   \* SwrCache.revalidating: the load recorded for the key, 0 if none
    loads,          \* the promises returned by loadFromOrigin
    originValue,    \* what the origin holds for the key
    clock,          \* Date.now()
    callers,        \* the swr calls: position, entry read, result
    bg,             \* the background revalidation started by each caller
    jobs,           \* the promise job queue (FIFO)
    calls,          \* number of swr calls made
    \* ---- one sliding-window counter behind RateLimiter.limit
    policy,        \* the counter's (limit, duration)
    ctr,        \* the counter: window start, current count, previous count
    ctrSkip,    \* the same counter had the cost = 0 calls not been made
    ltime,      \* wall-clock time of the node
    hist,       \* the calls made so far and their responses
    \* ---- the limiter coordinator on the nodes of a cluster, one identifier
    cnt,        \* each node's counter (the owner's is authoritative, the others are shadows)
    pin,        \* each node's BroadcastExceeded pin: its reset_at, 0 if none
    queue,      \* each node's batch queue of deltas not yet flushed
    pushes,     \* PushCounter messages in flight
    bcasts,     \* BroadcastExceeded messages in flight
    ctime,      \* wall-clock time of the cluster
    sent,       \* number of Limit calls made
    okBy,       \* number of success=true responses, by node
    conf,       \* the policy and the calls of the run
    lastResp,   \* the last response
    \* ---- the handler of POST /v1/ratelimits.limit
    db,         \* the namespace row of (workspace, name) and its overrides
    rcache,     \* cache.ratelimitByIdentifier: the entry of each identifier's key
    hctr,       \* the counters behind rateLimiter.limit, by limiter identifier
    served,     \* number of requests handled
    lastReq,    \* the last request and what the cache returned for it
    lastCall,   \* the arguments of the last rateLimiter.limit call
    lastReply,  \* the last response of the handler
    \* ---- concurrent loaders that auto-create one namespace
    primary,    \* db.primary: the rows of ratelimitNamespaces with the (workspace, name)
    replica,    \* db.readonly: what the read replica holds of them
    ld,         \* the loaders: position, the id from newId, the result
    issued,     \* number of ids newId has handed out
    \* ---- SwrCache.set and get over a TieredStore, one (namespace, key)
    tiers,      \* what each tier's store holds for the key
    tmode,      \* how each tier's store currently answers
    backfill,   \* the Promise.all calls handed to ctx.waitUntil and not yet settled
    tnow,       \* Date.now()
    top,        \* the last operation on the tiered store and what it returned
    \* ---- one MemoryStore and its eviction on set
    mstate,     \* MemoryStore.state: the Map's entries, in iteration order
    mcfg,       \* unstableEvictOnSet: frequency and maxItems
    mnow,       \* Date.now()
    mlast,      \* the last set: the Map after the write and after the eviction pass
    \* ---- one request of the SDK client (Unkey.fetch)
    fcfg,       \* this.retry.attempts
    fpc,        \* where the request stands: in the loop, after it, returned
    fi,         \* the loop index i
    fres,       \* `res`: the last response, or null
    ferr,       \* `err`: whether a network failure was caught
    fhist,      \* the responses and failures of the HTTP requests made
    fout,       \* what the request returned to its caller
    \* ---- the age of the override data behind the handler's decisions
    oprimary,   \* db.primary: the version of the namespace's overrides
    oreplica,   \* db.readonly: the version the read replica holds
    osuper,     \* when each version was replaced on the primary, -1 if it was not
    oentry,     \* the cache entry of the identifier's key
    oreadAt,    \* when the data of the entry was read from the database
    otime,      \* Date.now()
    olast       \* the last Limit call: its time, the version it was decided with

rvars == <<ovs, ident, resolved>>

svars == <<state, revalidating, loads, originValue, clock, callers, bg, jobs, calls>>

lvars == <<policy, ctr, ctrSkip, ltime, hist>>

vars == <<ovs, ident, resolved,
          state, revalidating, loads, originValue, clock, callers, bg, jobs, calls,
          policy, ctr, ctrSkip, ltime, hist,
          cnt, pin, queue, pushes, bcasts, ctime, sent, okBy, conf, lastResp,
          db, rcache, hctr, served, lastReq, lastCall, lastReply,
          primary, replica, ld, issued,
          tiers, tmode, backfill, tnow, top,
          mstate, mcfg, mnow, mlast,
          fcfg, fpc, fi, fres, ferr, fhist, fout,
          oprimary, oreplica, osuper, oentry, oreadAt, otime, olast>>

ovars == <<oprimary, oreplica, osuper, oentry, oreadAt, otime, olast>>

fvars == <<fcfg, fpc, fi, fres, ferr, fhist, fout>>

mvars == <<mstate, mcfg, mnow, mlast>>

tvars == <<tiers, tmode, backfill, tnow, top>>

nvars == <<primary, replica, ld, issued>>

hvars == <<db, rcache, hctr, served, lastReq, lastCall, lastReply>>

cvars == <<cnt, pin, queue, pushes, bcasts, ctime, sent, okBy, conf, lastResp>>

-----------------------------------------------------------------------------
(* Generic helpers                                                          *)

Max(a, b) == IF a >= b THEN a ELSE b

Min(a, b) == IF a <= b THEN a ELSE b

\* All sequences over S of length lo..hi.
SeqsOf(S, lo, hi) == UNION {[1..n -> S] : n \in lo..hi}

\* Sum of the elements of a sequence of integers.
RECURSIVE SumSeq(_)
SumSeq(s) == IF s = <<>> THEN 0 ELSE Head(s) + SumSeq(Tail(s))

-----------------------------------------------------------------------------
(* Strings are sequences of character codes.                                *)

STAR == 42

CharA == 97

CharB == 98

Alphabet == {CharA, CharB}

MaxPatLen == 2

MaxIdLen == 2

MaxOverrides == 2

Patterns == SeqsOf(Alphabet \cup {STAR}, 1, MaxPatLen)

Identifiers == SeqsOf(Alphabet, 1, MaxIdLen)

\* The value of an absent `override` (undefined).
NoOverride == [identifier |-> <<>>, limit |-> 0, duration |-> 0, async |-> "undefined", sharding |-> "none"]

\* String.prototype.includes("*")
IncludesStar(p) == \E i \in 1..Len(p) : p[i] = STAR

\* match(pattern, s) of @/pkg/util/wildcard: `*` matches zero or more
\* characters, every other character matches itself.
RECURSIVE Match(_, _)
Match(p, s) ==
    IF p = <<>> THEN s = <<>>
    ELSE IF Head(p) = STAR
         THEN Match(Tail(p), s) \/ (s # <<>> /\ Match(p, Tail(s)))
         ELSE s # <<>> /\ Head(s) = Head(p) /\ Match(Tail(p), Tail(s))

\* Array.prototype.find: the index of the first element satisfying P, 0 if none.
FindIndex(s, P(_)) ==
    IF \E i \in 1..Len(s) : P(s[i])
    THEN CHOOSE i \in 1..Len(s) : P(s[i]) /\ \A j \in 1..(i - 1) : ~P(s[j])
    ELSE 0

\* A plausible slip: the last match instead of the first one.
FindLastIndex(s, P(_)) ==
    IF \E i \in 1..Len(s) : P(s[i])
    THEN CHOOSE i \in 1..Len(s) : P(s[i]) /\ \A j \in (i + 1)..Len(s) : ~P(s[j])
    ELSE 0

\* dbRes.overrides.find((o) => o.identifier === req.identifier)
ExactMatchIndex(overrides, identifier) ==
    LET IsExact(o) == o.identifier = identifier
    IN  FindIndex(overrides, IsExact)

\* a resolver that takes the last matching wildcard
WildcardMatchIndexLast(overrides, identifier) ==
    LET IsWild(o) == IncludesStar(o.identifier) /\ Match(o.identifier, identifier)
    IN  FindLastIndex(overrides, IsWild)

\* dbRes.overrides.find((o) => o.identifier.includes("*") && match(o.identifier, req.identifier))
WildcardMatchIndex(overrides, identifier) ==
    LET IsWild(o) == IncludesStar(o.identifier) /\ Match(o.identifier, identifier)
    IN  FindIndex(overrides, IsWild)

\* a resolver that runs one find over "exact or wildcard", in stored order
ResolveOverrideOnePass(overrides, identifier) ==
    LET Hit(o) == \/ o.identifier = identifier
                  \/ IncludesStar(o.identifier) /\ Match(o.identifier, identifier)
        i == FindIndex(overrides, Hit)
    IN  IF i # 0 THEN overrides[i] ELSE NoOverride

\* The override-matching tail of the loader: exact match, then the first
\* wildcard match, then none.
ResolveOverride(overrides, identifier) ==
    LET e == ExactMatchIndex(overrides, identifier)
        w == WildcardMatchIndex(overrides, identifier)
    IN  IF e # 0 THEN overrides[e]
        ELSE IF w # 0 THEN overrides[w]
        ELSE NoOverride

\* The policies an override can carry in the model.
OverridePolicies ==
    { [limit |-> 1, duration |-> 1000, async |-> TRUE,  sharding |-> "none"],
      [limit |-> 2, duration |-> 2000, async |-> FALSE, sharding |-> "edge"] }

MkOverride(p, pol) ==
    [identifier |-> p, limit |-> pol.limit, duration |-> pol.duration,
     async |-> pol.async, sharding |-> pol.sharding]

\* The parts of the state a specification does not use.
RIdle == ovs = <<>> /\ ident = <<>> /\ resolved = [identifier |-> <<>>, limit |-> -1, duration |-> 0, async |-> "undefined", sharding |-> "none"]

SIdle ==
    /\ state = [value |-> 0, freshUntil |-> 0, staleUntil |-> 0]
    /\ revalidating = 0
    /\ loads = <<>>
    /\ originValue = 0
    /\ clock = 0
    /\ callers = <<>>
    /\ bg = <<>>
    /\ jobs = <<>>
    /\ calls = 0

LIdle ==
    /\ policy = [limit |-> 0, duration |-> 0]
    /\ ctr = [start |-> -1, current |-> 0, previous |-> 0]
    /\ ctrSkip = [start |-> -1, current |-> 0, previous |-> 0]
    /\ ltime = 0
    /\ hist = <<>>

CIdle ==
    /\ cnt = <<>>
    /\ pin = <<>>
    /\ queue = <<>>
    /\ pushes = <<>>
    /\ bcasts = {}
    /\ ctime = 0
    /\ sent = 0
    /\ okBy = <<>>
    /\ conf = <<>>
    /\ lastResp = [node |-> 0]

\* (namespace_id, identifier) is unique among a namespace's overrides.
HIdle ==
    /\ db = [exists |-> FALSE, id |-> 0, overrides |-> <<>>]
    /\ rcache = <<>>
    /\ hctr = <<>>
    /\ served = 0
    /\ lastReq = <<>>
    /\ lastCall = <<>>
    /\ lastReply = <<>>

NIdle ==
    /\ primary = {}
    /\ replica = {}
    /\ ld = <<>>
    /\ issued = 0

OIdle ==
    /\ oprimary = 0
    /\ oreplica = 0
    /\ osuper = <<>>
    /\ oentry = <<>>
    /\ oreadAt = 0
    /\ otime = 0
    /\ olast = <<>>

FIdle ==
    /\ fcfg = 0
    /\ fpc = "idle"
    /\ fi = 0
    /\ fres = <<>>
    /\ ferr = FALSE
    /\ fhist = <<>>
    /\ fout = <<>>

MIdle ==
    /\ mstate = <<>>
    /\ mcfg = <<>>
    /\ mnow = 0
    /\ mlast = <<>>

TIdle ==
    /\ tiers = <<>>
    /\ tmode = <<>>
    /\ backfill = <<>>
    /\ tnow = 0
    /\ top = <<>>

UniqueIdentifiers(s) == \A i, j \in 1..Len(s) : i # j => s[i].identifier # s[j].identifier

NotResolved == [identifier |-> <<>>, limit |-> -1, duration |-> 0, async |-> "undefined", sharding |-> "none"]

\* The resolver's override lists: the limit of an override tells the
\* overrides of one list apart.
ResolverOverrideLists ==
    { s \in SeqsOf({MkOverride(p, pol) : p \in Patterns, pol \in {CHOOSE x \in OverridePolicies : x.limit = 1}},
                   0, MaxOverrides) : UniqueIdentifiers(s) }

RInit ==
    /\ ovs \in ResolverOverrideLists
    /\ ident \in Identifiers \cup {<<CharA, STAR>>}
    /\ resolved = NotResolved
    /\ SIdle /\ LIdle /\ CIdle /\ HIdle /\ NIdle /\ TIdle /\ MIdle /\ FIdle /\ OIdle

\* The loader reaches the override matching with dbRes.overrides = ovs.
Resolve ==
    /\ resolved = NotResolved
    /\ resolved' = ResolveOverride(ovs, ident)
    /\ UNCHANGED <<ovs, ident>>
    /\ UNCHANGED <<svars, lvars, cvars, hvars, nvars, tvars, mvars, fvars, ovars>>

RNext == Resolve

SpecResolve == RInit /\ [][RNext]_vars

-----------------------------------------------------------------------------
(* Claims about the resolver                                                *)

ExactOverrides == {i \in 1..Len(ovs) : ovs[i].identifier = ident}

MatchingWildcards ==
    {i \in 1..Len(ovs) : IncludesStar(ovs[i].identifier) /\ Match(ovs[i].identifier, ident)}

\* C8: when the namespace has an override whose pattern equals the identifier
\* and one or more wildcard overrides that match it, the resolver returns the
\* exact-literal override, in whatever order the overrides are stored.
C8_ExactBeatsWildcard ==
    (resolved # NotResolved /\ ExactOverrides # {} /\ (MatchingWildcards \ ExactOverrides) # {})
        => resolved.identifier = ident

\* C8 witness: a wildcard override stored before the exact one, and the exact one returned.
C8_Witness ==
    /\ resolved # NotResolved
    /\ \E e \in ExactOverrides : \E w \in MatchingWildcards : w < e /\ ovs[w].identifier # ident
    /\ resolved.identifier = ident

CountStars(p) == Cardinality({i \in 1..Len(p) : p[i] = STAR})

\* Length of the prefix before the first `*`.
PrefixLen(p) == IF IncludesStar(p) THEN (CHOOSE i \in 1..Len(p) : p[i] = STAR /\ \A j \in 1..(i - 1) : p[j] # STAR) - 1 ELSE Len(p)

RECURSIVE LexLess(_, _)
LexLess(p, q) ==
    IF q = <<>> THEN FALSE
    ELSE IF p = <<>> THEN TRUE
    ELSE IF Head(p) # Head(q) THEN Head(p) < Head(q)
    ELSE LexLess(Tail(p), Tail(q))

\* p is preferred to q: fewer stars, then longer literal prefix, then lexicographic.
Preferred(p, q) ==
    \/ CountStars(p) < CountStars(q)
    \/ CountStars(p) = CountStars(q) /\ PrefixLen(p) > PrefixLen(q)
    \/ CountStars(p) = CountStars(q) /\ PrefixLen(p) = PrefixLen(q) /\ LexLess(p, q)

\* C9 as stated: with several matching wildcards and no exact override the
\* resolver returns the one with the fewest `*`, then the longest literal
\* prefix, then the lexicographically smallest pattern, whatever the stored order.
C9_Original ==
    (resolved # NotResolved /\ ExactOverrides = {} /\ MatchingWildcards # {})
        => \A i \in MatchingWildcards :
               ovs[i].identifier # resolved.identifier => Preferred(resolved.identifier, ovs[i].identifier)

\* C9 amended: with several matching wildcards and no exact override the
\* resolver returns the matching wildcard override that is stored first.
C9_FirstStoredWildcard ==
    (resolved # NotResolved /\ ExactOverrides = {} /\ MatchingWildcards # {})
        => /\ resolved \in {ovs[i] : i \in MatchingWildcards}
           /\ \A i \in MatchingWildcards :
                  \A j \in 1..Len(ovs) : ovs[j] = resolved => j <= i

\* C9 witness: two matching wildcards, the less specific one stored first and returned.
C9_Witness ==
    /\ resolved # NotResolved
    /\ ExactOverrides = {}
    /\ Cardinality(MatchingWildcards) >= 2
    /\ \E i \in MatchingWildcards : Preferred(ovs[i].identifier, resolved.identifier)

-----------------------------------------------------------------------------
(* SwrCache over a MemoryStore, for one (namespace, key).                   *)
(*                                                                          *)
(* Every `await` is a suspension point.  A continuation is a promise job:   *)
(* the jobs of a promise that settles are queued, in the order in which     *)
(* they were registered, when it settles; the job of an `await` on a        *)
(* promise that has already settled is queued at once.  Jobs run in FIFO    *)
(* order.  Calls of swr, the origin's replies and the clock come from       *)
(* outside and may happen between any two jobs.                             *)

NCallers == 3

MaxCalls == 4

MaxTime == 2

MaxVersion == 1

\* SwrCache.fresh and SwrCache.stale, in clock ticks.
Fresh == 1

Stale == 2

Callers == 1..NCallers

\* `undefined`
Undefined == 0

NoEntry == [value |-> 0, freshUntil |-> 0, staleUntil |-> 0]

NoResult == [kind |-> "none", value |-> 0]

\* A caller that is not inside swr.
Outside(i) == callers[i].pc \in {"idle", "done"}

Pending == {l \in 1..Len(loads) : loads[l].status = "pending"}

SInit ==
    /\ state = NoEntry
    /\ revalidating = 0
    /\ loads = <<>>
    /\ originValue = 1
    /\ clock = 0
    /\ callers = [i \in Callers |-> [pc |-> "idle", got |-> NoEntry, result |-> NoResult]]
    /\ bg = [i \in Callers |-> "none"]
    /\ jobs = <<>>
    /\ calls = 0
    /\ RIdle /\ LIdle /\ CIdle /\ HIdle /\ NIdle /\ TIdle /\ MIdle /\ FIdle /\ OIdle

\* MemoryStore.get: the stored entry; an entry whose `expires` has passed is
\* removed, and still returned.
MemoryStoreGetState(now) == IF state # NoEntry /\ state.staleUntil <= now THEN NoEntry ELSE state

\* SwrCache.set -> MemoryStore.set
SwrSet(value, now) == [value |-> value, freshUntil |-> now + Fresh, staleUntil |-> now + Stale]

\* a _get that returns the value of an entry whatever its staleUntil
SwrGetNoExpiry(entry, now) ==
    IF entry = NoEntry THEN [value |-> Undefined, revalidate |-> FALSE, remove |-> FALSE]
    ELSE IF now >= entry.freshUntil THEN [value |-> entry.value, revalidate |-> TRUE, remove |-> FALSE]
    ELSE [value |-> entry.value, revalidate |-> FALSE, remove |-> FALSE]

\* SwrCache._get on the entry the store returned: <<value, revalidate, remove>>
SwrGet(entry, now) ==
    IF entry = NoEntry THEN [value |-> Undefined, revalidate |-> FALSE, remove |-> FALSE]
    ELSE IF now >= entry.staleUntil THEN [value |-> Undefined, revalidate |-> FALSE, remove |-> TRUE]
    ELSE IF now >= entry.freshUntil THEN [value |-> entry.value, revalidate |-> TRUE, remove |-> FALSE]
    ELSE [value |-> entry.value, revalidate |-> FALSE, remove |-> FALSE]

\* a single-flight lookup that never finds the load in flight
InFlightNever(reval) == 0

\* this.revalidating.get(revalidateKey): the load to wait on, 0 if none
InFlight(reval) == reval

\* swr(namespace, key, loadFromOrigin) is called: it runs into _get, which
\* calls store.get and awaits it.
Call(i) ==
    /\ Outside(i) /\ bg[i] = "none"
    /\ calls < MaxCalls
    /\ calls' = calls + 1
    /\ callers' = [callers EXCEPT ![i] = [pc |-> "getting", got |-> state, result |-> NoResult]]
    /\ state' = MemoryStoreGetState(clock)
    /\ jobs' = Append(jobs, [kind |-> "afterGet", caller |-> i, mode |-> "fg", load |-> 0])
    /\ UNCHANGED <<revalidating, loads, originValue, clock, bg>>

\* get(namespace, key) is called: it runs into _get, as swr does.
CallGet(i) ==
    /\ Outside(i) /\ bg[i] = "none"
    /\ calls < MaxCalls
    /\ calls' = calls + 1
    /\ callers' = [callers EXCEPT ![i] = [pc |-> "getting", got |-> state, result |-> NoResult]]
    /\ state' = MemoryStoreGetState(clock)
    /\ jobs' = Append(jobs, [kind |-> "afterGet", caller |-> i, mode |-> "get", load |-> 0])
    /\ UNCHANGED <<revalidating, loads, originValue, clock, bg>>

\* deduplicateLoadFromOrigin up to its await, for caller i in the foreground
\* ("fg") or as its background revalidation ("bg"): the next values of
\* <<revalidating, loads, jobs>>, given the queue q left by the running job.
Deduplicate(i, mode, q) ==
    LET l == InFlight(revalidating)
        me == [caller |-> i, mode |-> mode]
    IN  IF l # 0
        THEN IF loads[l].status = "pending"
             THEN <<revalidating,
                    [loads EXCEPT ![l].waiters = Append(@, me)],
                    q>>
             ELSE <<revalidating,
                    loads,
                    Append(q, [kind |-> "afterLoad", caller |-> i, mode |-> mode, load |-> l])>>
        ELSE <<Len(loads) + 1,
               Append(loads, [status |-> "pending", value |-> Undefined, waiters |-> <<me>>]),
               q>>

\* The job after `await this._get(namespace, key)` in swr, or in get, which
\* returns the value _get found, `undefined` included.
AfterGet(j, q) ==
    LET i == j.caller
        g == SwrGet(callers[i].got, clock)
        d == Deduplicate(i, IF g.value # Undefined THEN "bg" ELSE "fg", q)
    IN  /\ state' = IF g.remove THEN NoEntry ELSE state
        /\ IF j.mode = "get"
           THEN /\ callers' = [callers EXCEPT ![i].pc = "done",
                                              ![i].result = [kind |-> "ok", value |-> g.value]]
                /\ jobs' = q
                /\ UNCHANGED <<revalidating, loads, bg>>
           ELSE IF g.value # Undefined
           THEN /\ callers' = [callers EXCEPT ![i].pc = "done",
                                              ![i].result = [kind |-> "ok", value |-> g.value]]
                /\ IF g.revalidate
                   THEN /\ revalidating' = d[1] /\ loads' = d[2] /\ jobs' = d[3]
                        /\ bg' = [bg EXCEPT ![i] = "loading"]
                   ELSE /\ jobs' = q
                        /\ UNCHANGED <<revalidating, loads, bg>>
           ELSE /\ callers' = [callers EXCEPT ![i].pc = "loading"]
                /\ revalidating' = d[1] /\ loads' = d[2] /\ jobs' = d[3]
                /\ UNCHANGED bg
        /\ UNCHANGED <<originValue, clock, calls>>

\* a deduplicateLoadFromOrigin that deletes the key's entry of the map only
\* when the load succeeded
AfterLoadKeepOnError(j, q) ==
    /\ revalidating' = IF loads[j.load].status = "rejected" THEN revalidating ELSE 0
    /\ jobs' = Append(q, [j EXCEPT !.kind = "afterDedupe"])
    /\ UNCHANGED <<state, loads, originValue, clock, callers, bg, calls>>

\* The job after `await revalidating` / `await p` in deduplicateLoadFromOrigin:
\* the finally block deletes the key's entry of the map.
AfterLoad(j, q) ==
    /\ revalidating' = 0
    /\ jobs' = Append(q, [j EXCEPT !.kind = "afterDedupe"])
    /\ UNCHANGED <<state, loads, originValue, clock, callers, bg, calls>>

\* a swr that returns the loaded value and does not set it
AfterDedupeNoSet(j, q) ==
    LET i == j.caller
        p == loads[j.load]
    IN  /\ jobs' = q
        /\ UNCHANGED state
        /\ IF j.mode = "fg"
           THEN /\ callers' = [callers EXCEPT ![i].pc = "done",
                                              ![i].result = IF p.status = "fulfilled"
                                                            THEN [kind |-> "ok", value |-> p.value]
                                                            ELSE [kind |-> "err", value |-> Undefined]]
                /\ UNCHANGED bg
           ELSE /\ bg' = [bg EXCEPT ![i] = "none"]
                /\ UNCHANGED callers
        /\ UNCHANGED <<revalidating, loads, originValue, clock, calls>>

\* a background revalidation that loads and does not set
AfterDedupeBgNoSet(j, q) ==
    LET i == j.caller
        p == loads[j.load]
    IN  /\ jobs' = q
        /\ state' = IF p.status = "fulfilled" /\ j.mode = "fg" THEN SwrSet(p.value, clock) ELSE state
        /\ IF j.mode = "fg"
           THEN /\ callers' = [callers EXCEPT ![i].pc = "done",
                                              ![i].result = IF p.status = "fulfilled"
                                                            THEN [kind |-> "ok", value |-> p.value]
                                                            ELSE [kind |-> "err", value |-> Undefined]]
                /\ UNCHANGED bg
           ELSE /\ bg' = [bg EXCEPT ![i] = "none"]
                /\ UNCHANGED callers
        /\ UNCHANGED <<revalidating, loads, originValue, clock, calls>>

\* a swr that answers a failed load with Ok(undefined)
AfterDedupeSwallow(j, q) ==
    LET i == j.caller
        p == loads[j.load]
    IN  /\ jobs' = q
        /\ state' = IF p.status = "fulfilled" THEN SwrSet(p.value, clock) ELSE state
        /\ IF j.mode = "fg"
           THEN /\ callers' = [callers EXCEPT ![i].pc = "done",
                                              ![i].result = [kind |-> "ok", value |-> p.value]]
                /\ UNCHANGED bg
           ELSE /\ bg' = [bg EXCEPT ![i] = "none"]
                /\ UNCHANGED callers
        /\ UNCHANGED <<revalidating, loads, originValue, clock, calls>>

\* a background chain that sets `undefined` when its load failed
AfterDedupeBgSetsOnError(j, q) ==
    LET i == j.caller
        p == loads[j.load]
    IN  /\ jobs' = q
        /\ state' = IF p.status = "fulfilled" \/ j.mode = "bg" THEN SwrSet(p.value, clock) ELSE state
        /\ IF j.mode = "fg"
           THEN /\ callers' = [callers EXCEPT ![i].pc = "done",
                                              ![i].result = IF p.status = "fulfilled"
                                                            THEN [kind |-> "ok", value |-> p.value]
                                                            ELSE [kind |-> "err", value |-> Undefined]]
                /\ UNCHANGED bg
           ELSE /\ bg' = [bg EXCEPT ![i] = "none"]
                /\ UNCHANGED callers
        /\ UNCHANGED <<revalidating, loads, originValue, clock, calls>>

\* The job after deduplicateLoadFromOrigin has returned or thrown: swr sets
\* the loaded value and returns it, or returns the error; the background
\* chain sets the loaded value.
AfterDedupe(j, q) ==
    LET i == j.caller
        p == loads[j.load]
    IN  /\ jobs' = q
        /\ state' = IF p.status = "fulfilled" THEN SwrSet(p.value, clock) ELSE state
        /\ IF j.mode = "fg"
           THEN /\ callers' = [callers EXCEPT ![i].pc = "done",
                                              ![i].result = IF p.status = "fulfilled"
                                                            THEN [kind |-> "ok", value |-> p.value]
                                                            ELSE [kind |-> "err", value |-> Undefined]]
                /\ UNCHANGED bg
           ELSE /\ bg' = [bg EXCEPT ![i] = "none"]
                /\ UNCHANGED callers
        /\ UNCHANGED <<revalidating, loads, originValue, clock, calls>>

\* The first job of the queue runs.
RunJob ==
    /\ jobs # <<>>
    /\ LET j == Head(jobs)
           q == Tail(jobs)
       IN  \/ j.kind = "afterGet" /\ AfterGet(j, q)
           \/ j.kind = "afterLoad" /\ AfterLoad(j, q)
           \/ j.kind = "afterDedupe" /\ AfterDedupe(j, q)

\* The promise of a loadFromOrigin call settles: with the origin's value, or
\* with an error.  The jobs of those who await it are queued.
LoadSettle(l, ok) ==
    /\ l \in Pending
    /\ loads' = [loads EXCEPT ![l] = [status |-> IF ok THEN "fulfilled" ELSE "rejected",
                                      value |-> IF ok THEN originValue ELSE Undefined,
                                      waiters |-> <<>>]]
    /\ jobs' = jobs \o [k \in 1..Len(loads[l].waiters) |->
                            [kind |-> "afterLoad", caller |-> loads[l].waiters[k].caller,
                             mode |-> loads[l].waiters[k].mode, load |-> l]]
    /\ UNCHANGED <<state, revalidating, originValue, clock, callers, bg, calls>>

\* The origin's value for the key changes; the origin may have no value
\* for the key, and loadFromOrigin then resolves to `undefined`.
OriginWrite(v) ==
    /\ v # originValue
    /\ originValue' = v
    /\ UNCHANGED <<state, revalidating, loads, clock, callers, bg, jobs, calls>>

\* Time passes.
Tick ==
    /\ clock < MaxTime
    /\ clock' = clock + 1
    /\ UNCHANGED <<state, revalidating, loads, originValue, callers, bg, jobs, calls>>

SNext ==
    \/ \E i \in Callers : Call(i) /\ UNCHANGED <<rvars, lvars, cvars, hvars, nvars, tvars, mvars, fvars, ovars>>
    \/ RunJob /\ UNCHANGED <<rvars, lvars, cvars, hvars, nvars, tvars, mvars, fvars, ovars>>
    \/ \E l \in 1..MaxCalls, ok \in BOOLEAN : LoadSettle(l, ok) /\ UNCHANGED <<rvars, lvars, cvars, hvars, nvars, tvars, mvars, fvars, ovars>>
    \/ \E v \in 0..MaxVersion : OriginWrite(v) /\ UNCHANGED <<rvars, lvars, cvars, hvars, nvars, tvars, mvars, fvars, ovars>>
    \/ \E i \in Callers : CallGet(i) /\ UNCHANGED <<rvars, lvars, cvars, hvars, nvars, tvars, mvars, fvars, ovars>>
    \/ Tick /\ UNCHANGED <<rvars, lvars, cvars, hvars, nvars, tvars, mvars, fvars, ovars>>

SpecSwr == SInit /\ [][SNext]_vars

\* The runs with few calls, in which the promise job queue is always served
\* (the event loop runs every queued job).
LiveCalls == 2

SLiveNext ==
    \/ \E i \in Callers : calls < LiveCalls /\ Call(i) /\ UNCHANGED <<rvars, lvars, cvars, hvars, nvars, tvars, mvars, fvars, ovars>>
    \/ RunJob /\ UNCHANGED <<rvars, lvars, cvars, hvars, nvars, tvars, mvars, fvars, ovars>>
    \/ \E l \in 1..LiveCalls, ok \in BOOLEAN : LoadSettle(l, ok) /\ UNCHANGED <<rvars, lvars, cvars, hvars, nvars, tvars, mvars, fvars, ovars>>
    \/ \E v \in 0..MaxVersion : OriginWrite(v) /\ UNCHANGED <<rvars, lvars, cvars, hvars, nvars, tvars, mvars, fvars, ovars>>
    \/ \E i \in Callers : calls < LiveCalls /\ CallGet(i) /\ UNCHANGED <<rvars, lvars, cvars, hvars, nvars, tvars, mvars, fvars, ovars>>
    \/ Tick /\ UNCHANGED <<rvars, lvars, cvars, hvars, nvars, tvars, mvars, fvars, ovars>>

SpecSwrLive ==
    /\ SInit
    /\ [][SLiveNext]_vars
    /\ WF_vars(RunJob /\ UNCHANGED <<rvars, lvars, cvars, hvars, nvars, tvars, mvars, fvars, ovars>>)

-----------------------------------------------------------------------------
(* Claims about the cache                                                   *)

\* C2: single-flight.  For any interleaving of concurrent swr calls for one
\* (namespace, key), loadFromOrigin is not invoked again while a load for
\* that key is in flight: at no time are two loads of the key in flight.
C2_SingleFlight == Cardinality(Pending) <= 1


-----------------------------------------------------------------------------
(* The sliding-window counter behind RateLimiter.limit, on one node.        *)
(* The implementation of the interface is not part of the sources; the      *)
(* counter follows the design of the decision engine: two adjacent fixed    *)
(* windows, the previous one weighted by the share of it that the sliding   *)
(* window still covers.  Time and durations are in ticks; the effective     *)
(* count is kept multiplied by the duration, so that it stays an integer.   *)

MaxLimit == 3

MaxCost == 3

MaxHist == 4

MaxLTime == 5

\* The window length in ticks.
Duration == 2

Policies == [limit : 1..MaxLimit, duration : {Duration}]

FreshCounter == [start |-> -1, current |-> 0, previous |-> 0]

\* window_start = floor(t / duration) * duration
WindowStart(t, d) == (t \div d) * d

\* If the stored current_start differs from window_start, roll:
\* previous = current, current = 0, current_start = window_start.
Roll(c, t, d) ==
    IF c.start # WindowStart(t, d)
    THEN [start |-> WindowStart(t, d), current |-> 0, previous |-> c.current]
    ELSE c

\* effective_count * duration, for a counter rolled to t:
\* effective_count = current + (1 - elapsed_in_window / duration) * previous
EffScaled(c, t, d) == c.current * d + (d - (t - c.start)) * c.previous

\* ceil(n / d) for n >= 0, d > 0
CeilDiv(n, d) == (n + d - 1) \div d

\* a decision that denies the call that exactly fills the limit
PassesStrict(c, cost, limit, t, d) == EffScaled(c, t, d) + cost * d < limit * d

\* effective_count + cost <= limit
Passes(c, cost, limit, t, d) == EffScaled(c, t, d) + cost * d <= limit * d

\* a counter that charges every call at least 1
CounterLimitMinOne(c, cost, limit, d, t) ==
    LET r == Roll(c, t, d)
        pass == Passes(r, cost, limit, t, d)
        n == IF pass THEN [r EXCEPT !.current = @ + Max(cost, 1)] ELSE r
    IN  [counter |-> n, passed |-> pass,
         current |-> CeilDiv(EffScaled(n, t, d), d),
         reset |-> r.start + d,
         eff |-> EffScaled(n, t, d)]

\* One Limit call on counter c at time t: the counter afterwards and the
\* RatelimitResponse (current = ceil(effective_count) after the decision).
\* `eff` is the effective count times the duration, for the record.
CounterLimit(c, cost, limit, d, t) ==
    LET r == Roll(c, t, d)
        pass == Passes(r, cost, limit, t, d)
        n == IF pass THEN [r EXCEPT !.current = @ + cost] ELSE r
    IN  [counter |-> n, passed |-> pass,
         current |-> CeilDiv(EffScaled(n, t, d), d),
         reset |-> r.start + d,
         eff |-> EffScaled(n, t, d)]

\* a handler that reports one more than what is left
RemainingOffByOne(limit, current) == Max(0, limit - current + 1)

\* const remaining = Math.max(0, limit - ratelimitResponse.current)
Remaining(limit, current) == Max(0, limit - current)

LInit ==
    /\ policy \in Policies
    /\ ctr = FreshCounter
    /\ ctrSkip = FreshCounter
    /\ ltime = 0
    /\ hist = <<>>
    /\ RIdle /\ SIdle /\ CIdle /\ HIdle /\ NIdle /\ TIdle /\ MIdle /\ FIdle /\ OIdle

\* A Limit call with the given cost arrives now.  ctrSkip takes the call
\* only if its cost is not 0.
LimitCall(cost) ==
    /\ Len(hist) < MaxHist
    /\ LET res == CounterLimit(ctr, cost, policy.limit, policy.duration, ltime)
           alt == CounterLimit(ctrSkip, cost, policy.limit, policy.duration, ltime)
       IN  /\ ctr' = res.counter
           /\ ctrSkip' = IF cost = 0 THEN ctrSkip ELSE alt.counter
           /\ hist' = Append(hist,
                  [cost |-> cost, ws |-> WindowStart(ltime, policy.duration),
                   success |-> res.passed,
                   remaining |-> Remaining(policy.limit, res.current),
                   reset |-> res.reset,
                   eff |-> res.eff,
                   successSkip |-> alt.passed])
    /\ UNCHANGED <<policy, ltime>>

\* Time passes.
LTick ==
    /\ ltime < MaxLTime
    /\ ltime' = ltime + 1
    /\ UNCHANGED <<policy, ctr, ctrSkip, hist>>

LNext ==
    \/ \E cost \in 0..MaxCost : LimitCall(cost) /\ UNCHANGED <<rvars, svars, cvars, hvars, nvars, tvars, mvars, fvars, ovars>>
    \/ LTick /\ UNCHANGED <<rvars, svars, cvars, hvars, nvars, tvars, mvars, fvars, ovars>>

SpecLimit == LInit /\ [][LNext]_vars

-----------------------------------------------------------------------------
(* Claims about the counter                                                 *)

Successes == Cardinality({i \in 1..Len(hist) : hist[i].success})

PrefixCost(k) == SumSeq([i \in 1..k |-> hist[i].cost])

\* The largest k with c_1 + ... + c_k <= L.
LargestPrefix == CHOOSE k \in 0..Len(hist) :
                    /\ PrefixCost(k) <= policy.limit
                    /\ \A m \in (k + 1)..Len(hist) : PrefixCost(m) > policy.limit

\* All calls so far fell into one window (of a counter that was fresh).
OneWindow == \A i \in 1..Len(hist) : hist[i].ws = hist[1].ws

\* C1 as stated: for calls of costs c_i against a fresh counter, all within
\* one window, the number of successful calls equals the largest k with
\* c_1 + ... + c_k <= L.
C1_Original == OneWindow => Successes = LargestPrefix

\* C1 amended: within one window of a fresh counter the first k calls
\* succeed, k being the largest k with c_1 + ... + c_k <= L, and call k + 1
\* is denied; a denied call adds nothing, so a later, cheaper call may still
\* succeed: the number of successes is at least k, and it is k when all
\* costs are equal.
C1_PrefixPasses ==
    OneWindow =>
        /\ \A i \in 1..LargestPrefix : hist[i].success
        /\ LargestPrefix < Len(hist) => ~hist[LargestPrefix + 1].success
        /\ Successes >= LargestPrefix
        /\ (\A i \in 1..Len(hist) : hist[i].cost = hist[1].cost) => Successes = LargestPrefix

\* C1 witness: one window, a call denied and a later, cheaper call passed.
C1_Witness ==
    /\ OneWindow
    /\ Len(hist) >= 3
    /\ LargestPrefix >= 1
    /\ Successes > LargestPrefix

\* On one counter that only takes Limit calls, every response satisfies
\* remaining + effective_count <= limit, and remaining is never negative.
OneCounterRemainingBound ==
    \A i \in 1..Len(hist) :
        /\ hist[i].remaining >= 0
        /\ hist[i].remaining * policy.duration + hist[i].eff <= policy.limit * policy.duration

\* A response in a later window whose effective count is fractional (the
\* previous window still weighs in), and a denied response with nothing
\* remaining.
OneCounterFractional ==
    /\ \E i \in 1..Len(hist) : hist[i].ws > 0 /\ hist[i].eff % policy.duration # 0 /\ hist[i].remaining > 0
    /\ \E i \in 1..Len(hist) : ~hist[i].success /\ hist[i].remaining = 0

\* C4 as stated: a call with cost = 0 never mutates the counter: the counts
\* and every later decision are the same as if the call had not been made.
C4_Original ==
    /\ \A i \in 1..Len(hist) : hist[i].success = hist[i].successSkip
    /\ Roll(ctr, ltime, policy.duration) = Roll(ctrSkip, ltime, policy.duration)


-----------------------------------------------------------------------------
(* The limiter coordinator on a cluster, for one identifier.                *)
(* The coordinator is not part of the sources; it follows the design: a     *)
(* node denies at once while a BroadcastExceeded pin is active, else it     *)
(* decides on its own counter; in async mode a non-owner queues the delta   *)
(* of an admitted call and a background flusher pushes the queue to the     *)
(* owner; in sync mode it asks the owner and returns the owner's decision;  *)
(* the owner broadcasts BroadcastExceeded when its count exceeds the limit. *)

\* The cluster and the policy of the "exceeded broadcast" scenario.
NNodes == 3

\* The policy and the number of calls of the other runs.
SmallLimit == 2

MaxClusterCalls == 4

ScenarioLimit == 5

ScenarioCalls == 10

\* Capacity of a node's batch queue: the most deltas one flush carries.
QueueCap == 2

MaxCTime == 2

Nodes == 1..NNodes

\* The ring's primary owner of the identifier.
Owner == 1

\* A run of arbitrary calls under a small policy.
AnyCalls ==
    [limit |-> SmallLimit, maxCalls |-> MaxClusterCalls, horizon |-> MaxCTime,
     costs |-> {0, 1}, modes |-> BOOLEAN]

\* The "exceeded broadcast" scenario: limit = 5, async = true, 10 calls of
\* cost 1 spread over the nodes, all within one window.
ExceededScenario ==
    [limit |-> ScenarioLimit, maxCalls |-> ScenarioCalls, horizon |-> Duration - 1,
     costs |-> {1}, modes |-> {TRUE}]

NoResp == [node |-> 0]

\* a pin that is never taken to be active
PinActiveNever(p, t) == FALSE

\* A pin is active while the current time is before its reset_at.
PinActive(p, t) == t < p

\* The counter exceeds the limit.
Exceeds(c, limit, t, d) == EffScaled(c, t, d) > limit * d

\* Append to a bounded queue: on overflow the oldest delta is dropped.
Enqueue(q, e) == IF Len(q) >= QueueCap THEN Append(Tail(q), e) ELSE Append(q, e)

\* BroadcastExceeded to every peer of the owner.
Fanout(resetAt) == {[to |-> n, resetAt |-> resetAt] : n \in Nodes \ {Owner}}

ClusterInit(c) ==
    /\ conf = c
    /\ cnt = [n \in Nodes |-> FreshCounter]
    /\ pin = [n \in Nodes |-> 0]
    /\ queue = [n \in Nodes |-> <<>>]
    /\ pushes = EmptyBag
    /\ bcasts = {}
    /\ ctime = 0
    /\ sent = 0
    /\ okBy = [n \in Nodes |-> 0]
    /\ lastResp = NoResp
    /\ RIdle /\ SIdle /\ LIdle /\ HIdle /\ NIdle /\ TIdle /\ MIdle /\ FIdle /\ OIdle

\* Limit(cost, async) handled by node n.
ClusterLimit(n, cost, async) ==
    /\ sent < conf.maxCalls
    /\ cost \in conf.costs /\ async \in conf.modes
    /\ sent' = sent + 1
    /\ LET pinned == PinActive(pin[n], ctime)
           local == CounterLimit(cnt[n], cost, conf.limit, Duration, ctime)
           owner == CounterLimit(cnt[Owner], cost, conf.limit, Duration, ctime)
           bySelf == n = Owner \/ async
           decided == IF bySelf THEN local ELSE owner
           success == ~pinned /\ decided.passed
           eff == IF pinned THEN EffScaled(Roll(cnt[n], ctime, Duration), ctime, Duration)
                  ELSE decided.eff
           over == IF bySelf
                   THEN Exceeds(Roll(cnt[n], ctime, Duration), conf.limit, ctime, Duration)
                   ELSE Exceeds(Roll(cnt[Owner], ctime, Duration), conf.limit, ctime, Duration)
       IN  /\ cnt' = IF pinned THEN cnt
                     ELSE IF bySelf THEN [cnt EXCEPT ![n] = local.counter]
                     ELSE [cnt EXCEPT ![n] = local.counter, ![Owner] = owner.counter]
           /\ queue' = IF ~pinned /\ n # Owner /\ async /\ local.passed /\ cost > 0
                       THEN [queue EXCEPT ![n] = Enqueue(@, local.counter.start)]
                       ELSE queue
           /\ okBy' = IF success THEN [okBy EXCEPT ![n] = @ + 1] ELSE okBy
           /\ lastResp' = [node |-> n, cost |-> cost, async |-> async, success |-> success,
                           time |-> ctime, resetAt |-> pin[n], over |-> over,
                           eff |-> eff,
                           remaining |-> Remaining(conf.limit, CeilDiv(eff, Duration))]
    /\ UNCHANGED <<pin, pushes, bcasts, ctime, conf>>

\* The background flusher of node n sends the queued deltas of the oldest
\* window in the queue as one PushCounter.
Flush(n) ==
    /\ n # Owner
    /\ queue[n] # <<>>
    /\ LET w == Head(queue[n])
           same == SelectSeq(queue[n], LAMBDA x : x = w)
           rest == SelectSeq(queue[n], LAMBDA x : x # w)
       IN  /\ pushes' = pushes (+) SetToBag({[ws |-> w, delta |-> Len(same)]})
           /\ queue' = [queue EXCEPT ![n] = rest]
    /\ UNCHANGED <<cnt, pin, bcasts, ctime, sent, okBy, conf, lastResp>>

\* The owner handles a PushCounter: the delta goes to the window it was
\* counted in; if the authoritative count now exceeds the limit, the owner
\* broadcasts BroadcastExceeded with the window's reset_at.
DeliverPush(m) ==
    /\ BagIn(m, pushes)
    /\ pushes' = pushes (-) SetToBag({m})
    /\ LET r == Roll(cnt[Owner], ctime, Duration)
           c == IF m.ws = r.start THEN [r EXCEPT !.current = @ + m.delta]
                ELSE IF m.ws = r.start - Duration THEN [r EXCEPT !.previous = @ + m.delta]
                ELSE r
       IN  /\ cnt' = [cnt EXCEPT ![Owner] = c]
           /\ bcasts' = IF Exceeds(c, conf.limit, ctime, Duration)
                        THEN bcasts \cup Fanout(c.start + Duration)
                        ELSE bcasts
    /\ UNCHANGED <<pin, queue, ctime, sent, okBy, conf, lastResp>>

\* A peer receives BroadcastExceeded: a reset_at in the future becomes its pin.
DeliverBroadcast(b) ==
    /\ b \in bcasts
    /\ bcasts' = bcasts \ {b}
    /\ pin' = IF b.resetAt > ctime THEN [pin EXCEPT ![b.to] = b.resetAt] ELSE pin
    /\ UNCHANGED <<cnt, queue, pushes, ctime, sent, okBy, conf, lastResp>>

\* Time passes.
ClusterTick ==
    /\ ctime < conf.horizon
    /\ ctime' = ctime + 1
    /\ UNCHANGED <<cnt, pin, queue, pushes, bcasts, sent, okBy, conf, lastResp>>

CNext ==
    \/ \E n \in Nodes, cost \in {0, 1}, async \in BOOLEAN :
           ClusterLimit(n, cost, async) /\ UNCHANGED <<rvars, svars, lvars, hvars, nvars, tvars, mvars, fvars, ovars>>
    \/ \E n \in Nodes : Flush(n) /\ UNCHANGED <<rvars, svars, lvars, hvars, nvars, tvars, mvars, fvars, ovars>>
    \/ \E m \in BagToSet(pushes) : DeliverPush(m) /\ UNCHANGED <<rvars, svars, lvars, hvars, nvars, tvars, mvars, fvars, ovars>>
    \/ \E b \in bcasts : DeliverBroadcast(b) /\ UNCHANGED <<rvars, svars, lvars, hvars, nvars, tvars, mvars, fvars, ovars>>
    \/ ClusterTick /\ UNCHANGED <<rvars, svars, lvars, hvars, nvars, tvars, mvars, fvars, ovars>>

CInit == ClusterInit(AnyCalls)

SpecCluster == CInit /\ [][CNext]_vars

EInit == ClusterInit(ExceededScenario)

SpecExceeded == EInit /\ [][CNext]_vars

-----------------------------------------------------------------------------
(* Claims about the cluster                                                 *)

TotalOk == SumSeq(okBy)

\* The last call was handled by a node whose pin was active.
LastPinned == lastResp # NoResp /\ lastResp.time < lastResp.resetAt

\* C3 as stated: for all policies and after any sequence of Limit calls,
\* every response satisfies remaining + effective_count <= limit, and
\* remaining is never negative.
C3_Original ==
    lastResp # NoResp =>
        /\ lastResp.remaining >= 0
        /\ lastResp.remaining * Duration + lastResp.eff <= conf.limit * Duration

\* C3 amended: remaining is never negative, and remaining + effective_count
\* <= limit in every response decided on a counter whose effective count is
\* within the limit; only the owner's count, raised by its peers' pushes, can
\* exceed the limit, and such a response has remaining = 0.
C3_RemainingBound ==
    lastResp # NoResp =>
        /\ lastResp.remaining >= 0
        /\ lastResp.eff <= conf.limit * Duration =>
               lastResp.remaining * Duration + lastResp.eff <= conf.limit * Duration
        /\ lastResp.eff > conf.limit * Duration =>
               /\ lastResp.remaining = 0
               /\ lastResp.over
               /\ lastResp.node = Owner \/ ~lastResp.async

\* C3 witness: the owner answers after pushes took its count over the limit.
C3_Witness ==
    /\ lastResp # NoResp
    /\ lastResp.node = Owner
    /\ lastResp.eff > conf.limit * Duration
    /\ lastResp.remaining = 0
    /\ ~lastResp.success

C6_PinnedDenied ==
    /\ LastPinned => ~lastResp.success
    /\ \A n \in Nodes : pin[n] # 0 => pin[n] = WindowStart(pin[n] - 1, Duration) + Duration

\* C6 witness: a pinned node has denied a call that its own counter had room for.
C6_Witness ==
    /\ LastPinned
    /\ ~lastResp.success
    /\ lastResp.cost = 1
    /\ cnt[lastResp.node].current + 1 <= conf.limit
    /\ cnt[lastResp.node].previous = 0

\* C7 as stated: 3 nodes, limit = 5, async, 10 calls of cost 1 spread over
\* the nodes: the number k of successes satisfies
\* 5 <= k <= 5 + (nodes - 1) * max_batch_per_flush.
C7_Original ==
    sent = ScenarioCalls =>
        /\ TotalOk >= ScenarioLimit
        /\ TotalOk <= ScenarioLimit + (NNodes - 1) * QueueCap

\* C7 amended: in that scenario k >= 5, and no node admits more than
\* limit = 5 calls of the window, so that k <= min(10, nodes * limit): the
\* overshoot is bounded by the other nodes' own limits, not by the batch size.
C7_BoundedByNodeLimits ==
    /\ sent = ScenarioCalls => TotalOk >= ScenarioLimit
    /\ \A n \in Nodes : okBy[n] <= ScenarioLimit
    /\ TotalOk <= Min(ScenarioCalls, NNodes * ScenarioLimit)

\* C7 witness: all 10 calls made, more than 5 admitted, and the last one
\* denied by a pin.
C7_Witness ==
    /\ sent = ScenarioCalls
    /\ TotalOk > ScenarioLimit
    /\ LastPinned
    /\ ~lastResp.success

-----------------------------------------------------------------------------
(* The handler of POST /v1/ratelimits.limit (registerV1RatelimitLimit):     *)
(* cache.ratelimitByIdentifier.swr around the loader, the permission check, *)
(* the effective policy, rateLimiter.limit and the response.  All requests  *)
(* fall in one window of the limiter.                                       *)

\* the number of requests handled in a run
MaxRequests == 2

\* the number of namespace ids newId can hand out in a run
MaxNamespaces == 2

RouteIdentifiers == {<<CharA>>}

RoutePatterns == {<<CharA>>, <<STAR>>}

RouteOverrideLists ==
    SeqsOf({MkOverride(p, pol) : p \in RoutePatterns, pol \in OverridePolicies}, 0, 1)

\* req.limit, req.duration, req.async
RequestPolicies == {[limit |-> 3, duration |-> 3000, async |-> a] : a \in BOOLEAN}

\* the loader's `return null`
Null == [namespace |-> 0, override |-> NoOverride]

\* `undefined`, as a value of the cache
UndefinedVal == [namespace |-> -1, override |-> NoOverride]

NoCached == [val |-> UndefinedVal, age |-> "miss"]

\* the loader found an override (override?.x is defined)
HasOverride(o) == o.identifier # <<>>

NoCall == [limit |-> 0]

NoReply == [code |-> "none"]

NoRequest == [cost |-> -1]

\* a loader that creates the namespace whatever the root key's permissions
LoaderAlwaysCreates(identifier, canCreateNamespace) ==
    IF ~db.exists
    THEN [val |-> [namespace |-> db.id + 1, override |-> NoOverride],
          db |-> [exists |-> TRUE, id |-> db.id + 1, overrides |-> <<>>]]
    ELSE [val |-> [namespace |-> db.id,
                   override |-> ResolveOverride(db.overrides, identifier)],
          db |-> db]

\* The loader closure: the namespace row with its overrides, created when it
\* is missing and the root key may create namespaces.
Loader(identifier, canCreateNamespace) ==
    IF ~db.exists
    THEN IF ~canCreateNamespace
         THEN [val |-> Null, db |-> db]
         ELSE [val |-> [namespace |-> db.id + 1, override |-> NoOverride],
               db |-> [exists |-> TRUE, id |-> db.id + 1, overrides |-> <<>>]]
    ELSE [val |-> [namespace |-> db.id,
                   override |-> ResolveOverride(db.overrides, identifier)],
          db |-> db]

\* SwrCache.swr for the identifier's key: a fresh entry is returned as it is,
\* a stale one is returned and reloaded in the background, a miss loads.
RouteSwr(identifier, canCreateNamespace) ==
    LET entry == rcache[identifier]
        l == Loader(identifier, canCreateNamespace)
        reloaded == [val |-> l.val, age |-> "fresh"]
    IN  CASE entry.age = "fresh" -> [val |-> entry.val, entry |-> entry, db |-> db]
          [] entry.age = "stale" -> [val |-> entry.val, entry |-> reloaded, db |-> l.db]
          [] OTHER -> [val |-> l.val, entry |-> reloaded, db |-> l.db]

CounterOf(key) ==
    IF \E e \in hctr : e.key = key
    THEN (CHOOSE e \in hctr : e.key = key).counter
    ELSE FreshCounter

\* limit, duration, async and sharding after the override is applied
EffectivePolicy(override, req) ==
    [limit |-> IF HasOverride(override) THEN override.limit ELSE req.limit,
     duration |-> IF HasOverride(override) THEN override.duration ELSE req.duration,
     async |-> IF HasOverride(override) THEN override.async ELSE req.async,
     sharding |-> override.sharding]

\* the argument of rateLimiter.limit
LimitArgs(namespace, override, req) ==
    LET p == EffectivePolicy(override, req)
    IN  [identifier |-> [namespace |-> namespace, identifier |-> req.identifier,
                         limit |-> p.limit, duration |-> p.duration, async |-> p.async],
         interval |-> p.duration,
         limit |-> p.limit,
         shard |-> IF p.sharding = "edge" THEN "colo" ELSE "global",
         cost |-> req.cost,
         async |-> req.async]

RouteInit ==
    /\ db \in {[exists |-> FALSE, id |-> 0, overrides |-> <<>>]}
              \cup {[exists |-> TRUE, id |-> 1, overrides |-> o] : o \in RouteOverrideLists}
    /\ rcache = [i \in RouteIdentifiers |-> NoCached]
    /\ hctr = {}
    /\ served = 0
    /\ lastReq = NoRequest
    /\ lastCall = NoCall
    /\ lastReply = NoReply
    /\ RIdle /\ SIdle /\ LIdle /\ CIdle /\ NIdle /\ TIdle /\ MIdle /\ FIdle /\ OIdle

\* One request, from the cache lookup to the response.
Handle(identifier, rp, cost, canCreateNamespace, canLimit) ==
    /\ served < MaxRequests
    /\ LET req == [identifier |-> identifier, limit |-> rp.limit, duration |-> rp.duration,
                   async |-> rp.async, cost |-> cost]
           got == RouteSwr(identifier, canCreateNamespace)
           val == got.val
       IN  /\ served' = served + 1
           /\ db' = got.db
           /\ rcache' = [rcache EXCEPT ![identifier] = got.entry]
           /\ lastReq' = [identifier |-> identifier, limit |-> rp.limit,
                          duration |-> rp.duration, async |-> rp.async, cost |-> cost,
                          val |-> val,
                          canCreateNamespace |-> canCreateNamespace,
                          existed |-> db.exists, exists |-> got.db.exists]
           /\ IF val.namespace = Null.namespace
              THEN /\ lastReply' = [code |-> "NOT_FOUND"]
                   /\ lastCall' = NoCall
                   /\ UNCHANGED hctr
              ELSE IF ~canLimit
              THEN /\ lastReply' = [code |-> "INSUFFICIENT_PERMISSIONS"]
                   /\ lastCall' = NoCall
                   /\ UNCHANGED hctr
              ELSE LET args == LimitArgs(val.namespace, val.override, req)
                       r == CounterLimit(CounterOf(args.identifier), args.cost,
                                         args.limit, args.interval, 0)
                   IN  /\ lastCall' = args
                       /\ hctr' = {e \in hctr : e.key # args.identifier}
                                    \cup {[key |-> args.identifier, counter |-> r.counter]}
                       /\ lastReply' = [code |-> "OK",
                                        limit |-> args.limit,
                                        remaining |-> Remaining(args.limit, r.current),
                                        reset |-> r.reset,
                                        success |-> r.passed]

\* The namespace's overrides are rewritten (dashboard, override API).
PutOverrides(o) ==
    /\ db.exists
    /\ o # db.overrides
    /\ db' = [db EXCEPT !.overrides = o]
    /\ UNCHANGED <<rcache, hctr, served, lastReq, lastCall, lastReply>>

\* The namespace is deleted (deletedAtM set).
DeleteNamespace ==
    /\ db.exists
    /\ db.id < MaxNamespaces
    /\ db' = [db EXCEPT !.exists = FALSE, !.overrides = <<>>]
    /\ UNCHANGED <<rcache, hctr, served, lastReq, lastCall, lastReply>>

\* Time passes over a cache entry: fresh, then stale, then gone.
Age(identifier) ==
    /\ rcache[identifier].age # "miss"
    /\ rcache' = [rcache EXCEPT ![identifier] =
                      IF @.age = "fresh" THEN [@ EXCEPT !.age = "stale"] ELSE NoCached]
    /\ UNCHANGED <<db, hctr, served, lastReq, lastCall, lastReply>>

RouteNext ==
    \/ \E identifier \in RouteIdentifiers, rp \in RequestPolicies, cost \in {0, 1},
          canCreateNamespace \in BOOLEAN, canLimit \in BOOLEAN :
           Handle(identifier, rp, cost, canCreateNamespace, canLimit)
           /\ UNCHANGED <<rvars, svars, lvars, cvars, nvars, tvars, mvars, fvars, ovars>>
    \/ \E o \in RouteOverrideLists : PutOverrides(o) /\ UNCHANGED <<rvars, svars, lvars, cvars, nvars, tvars, mvars, fvars, ovars>>
    \/ DeleteNamespace /\ UNCHANGED <<rvars, svars, lvars, cvars, nvars, tvars, mvars, fvars, ovars>>
    \/ \E identifier \in RouteIdentifiers : Age(identifier) /\ UNCHANGED <<rvars, svars, lvars, cvars, nvars, tvars, mvars, fvars, ovars>>

SpecRoute == RouteInit /\ [][RouteNext]_vars

-----------------------------------------------------------------------------
(* Claims about the handler                                                 *)

\* C10: when an override is in effect for the request, the decision is
\* computed with the override's limit, duration and async mode; otherwise with
\* the limit, duration and async mode the caller supplied.
C10_EffectivePolicy ==
    lastCall.limit # NoCall.limit =>
        LET o == lastReq.val.override
        IN  IF HasOverride(o)
            THEN /\ lastCall.limit = o.limit
                 /\ lastCall.interval = o.duration
                 /\ lastCall.async = o.async
            ELSE /\ lastCall.limit = lastReq.limit
                 /\ lastCall.interval = lastReq.duration
                 /\ lastCall.async = lastReq.async

\* What the handler does pass on: the override's limit and duration, and the
\* caller's async mode whatever the override says.
C10_AsyncOfRequest ==
    lastCall.limit # NoCall.limit =>
        LET o == lastReq.val.override
        IN  /\ lastCall.async = lastReq.async
            /\ HasOverride(o) => lastCall.limit = o.limit /\ lastCall.interval = o.duration
            /\ ~HasOverride(o) => lastCall.limit = lastReq.limit /\ lastCall.interval = lastReq.duration

\* A request has been handled.
Handled == lastReq.cost # NoRequest.cost

\* C11 as stated: whenever a Limit call names a namespace that does not
\* exist and the caller may create namespaces, the namespace is created and
\* the call goes on to a rate-limit decision instead of NOT_FOUND, after any
\* earlier sequence of Limit calls for that namespace.
C11_AutoCreate ==
    (Handled /\ ~lastReq.existed /\ lastReq.canCreateNamespace) =>
        /\ lastReq.exists
        /\ lastReply.code # "NOT_FOUND"

-----------------------------------------------------------------------------
(* Concurrent loaders of the handler that auto-create the same namespace:   *)
(* requests for one (workspace, namespace) and different identifiers, all   *)
(* with the permission to create namespaces.  Reads go to db.readonly, the  *)
(* insert goes to db.primary; the read replica follows the primary with a   *)
(* lag.  The table is not part of the sources: (workspace_id, name) is      *)
(* unique among the rows that are not deleted.                               *)

\* the number of concurrent loaders
NLoaders == 2

\* the number of namespace rows that get deleted in a run
MaxDeletes == 1

Loaders == 1..NLoaders

NoLoaderResult == [kind |-> "none", id |-> 0, live |-> FALSE]

\* the rows a query with isNull(deletedAtM) can return
LiveRows(table) == {r \in table : ~r.deleted}

CreateInit ==
    /\ primary = {}
    /\ replica = {}
    /\ ld = [i \in Loaders |-> [pc |-> "start", id |-> 0, result |-> NoLoaderResult]]
    /\ issued = 0
    /\ RIdle /\ SIdle /\ LIdle /\ CIdle /\ HIdle /\ TIdle /\ MIdle /\ FIdle /\ OIdle

\* db.readonly.query.ratelimitNamespaces.findFirst, deletedAtM is null: the
\* row is returned with its overrides, or the loader goes on to create it.
FindNamespace(i) ==
    /\ ld[i].pc = "start"
    /\ IF LiveRows(replica) # {}
       THEN /\ \E r \in LiveRows(replica) :
                 ld' = [ld EXCEPT ![i] = [pc |-> "done", id |-> 0,
                            result |-> [kind |-> "found", id |-> r.id,
                                        live |-> r \in LiveRows(primary)]]]
            /\ UNCHANGED issued
       ELSE /\ issued' = issued + 1
            /\ ld' = [ld EXCEPT ![i] = [@ EXCEPT !.pc = "insert", !.id = issued + 1]]
    /\ UNCHANGED <<primary, replica>>

\* db.primary.insert: refused with "Duplicate entry" when a row that is not
\* deleted has the (workspace, name) already.
InsertNamespace(i) ==
    /\ ld[i].pc = "insert"
    /\ IF LiveRows(primary) # {}
       THEN /\ ld' = [ld EXCEPT ![i] = [@ EXCEPT !.pc = "fallback"]]
            /\ UNCHANGED primary
       ELSE /\ primary' = primary \cup {[id |-> ld[i].id, deleted |-> FALSE]}
            /\ ld' = [ld EXCEPT ![i] = [@ EXCEPT !.pc = "done",
                          !.result = [kind |-> "created", id |-> ld[i].id, live |-> TRUE]]]
    /\ UNCHANGED <<replica, issued>>

\* The catch block: db.readonly.query.ratelimitNamespaces.findFirst by name
\* and workspace (deleted rows included), the result taken as non-null.
FallbackFind(i) ==
    /\ ld[i].pc = "fallback"
    /\ IF replica = {}
       THEN ld' = [ld EXCEPT ![i] = [@ EXCEPT !.pc = "done",
                       !.result = [kind |-> "undefined", id |-> 0, live |-> FALSE]]]
       ELSE \E r \in replica :
                ld' = [ld EXCEPT ![i] = [@ EXCEPT !.pc = "done",
                          !.result = [kind |-> "fallback", id |-> r.id,
                                      live |-> [id |-> r.id, deleted |-> FALSE] \in primary]]]
    /\ UNCHANGED <<primary, replica, issued>>

\* The read replica catches up with the primary.
Replicate ==
    /\ replica # primary
    /\ replica' = primary
    /\ UNCHANGED <<primary, ld, issued>>

\* The namespace is deleted: deletedAtM is set on its row.
SoftDelete ==
    /\ Cardinality({r \in primary : r.deleted}) < MaxDeletes
    /\ \E r \in LiveRows(primary) :
           primary' = (primary \ {r}) \cup {[r EXCEPT !.deleted = TRUE]}
    /\ UNCHANGED <<replica, ld, issued>>

\* A loader has returned and the next request of that caller starts one.
Restart(i) ==
    /\ ld[i].pc = "done"
    /\ issued < NLoaders + MaxDeletes
    /\ ld' = [ld EXCEPT ![i] = [pc |-> "start", id |-> 0, result |-> NoLoaderResult]]
    /\ UNCHANGED <<primary, replica, issued>>

CreateNext ==
    \/ \E i \in Loaders : FindNamespace(i) /\ UNCHANGED <<rvars, svars, lvars, cvars, hvars, tvars, mvars, fvars, ovars>>
    \/ \E i \in Loaders : InsertNamespace(i) /\ UNCHANGED <<rvars, svars, lvars, cvars, hvars, tvars, mvars, fvars, ovars>>
    \/ \E i \in Loaders : FallbackFind(i) /\ UNCHANGED <<rvars, svars, lvars, cvars, hvars, tvars, mvars, fvars, ovars>>
    \/ Replicate /\ UNCHANGED <<rvars, svars, lvars, cvars, hvars, tvars, mvars, fvars, ovars>>
    \/ SoftDelete /\ UNCHANGED <<rvars, svars, lvars, cvars, hvars, tvars, mvars, fvars, ovars>>
    \/ \E i \in Loaders : Restart(i) /\ UNCHANGED <<rvars, svars, lvars, cvars, hvars, tvars, mvars, fvars, ovars>>

SpecCreate == CreateInit /\ [][CreateNext]_vars

-----------------------------------------------------------------------------
(* Claims about the concurrent creation of a namespace                      *)

\* C13: for any interleaving of concurrent Limit calls that auto-create the
\* same namespace, at most one row that is not deleted has the (workspace,
\* name), and the call that loses the insert race succeeds by falling back
\* to the existing row.
C13_OneRowAndFallback ==
    /\ Cardinality(LiveRows(primary)) <= 1
    /\ \A i \in Loaders :
           ld[i].result.kind \in {"fallback", "undefined"} =>
               /\ ld[i].result.kind = "fallback"
               /\ ld[i].result.live

-----------------------------------------------------------------------------
(* Claims about swr's paths                                                 *)

\* Caller i is about to run the continuation of `await this._get(...)`.
GetReturns(i) ==
    /\ jobs # <<>>
    /\ Head(jobs).kind = "afterGet"
    /\ Head(jobs).caller = i
    /\ callers'[i] # callers[i]

\* Caller i is about to run the continuation of its foreground
\* deduplicateLoadFromOrigin.
LoadReturns(i) ==
    /\ jobs # <<>>
    /\ Head(jobs).kind = "afterDedupe"
    /\ Head(jobs).caller = i
    /\ Head(jobs).mode = "fg"
    /\ callers'[i] # callers[i]

\* C15 as stated: when swr finds no entry, or an entry past stale_until, it
\* runs load_from_origin, returns the loaded value and sets it, so that a
\* following swr within the fresh period returns that value without calling
\* load_from_origin again.
C15_Original ==
    [][\A i \in Callers :
        /\ (LoadReturns(i) /\ loads[Head(jobs).load].status = "fulfilled") =>
               /\ callers'[i].result = [kind |-> "ok", value |-> loads[Head(jobs).load].value]
               /\ state' = SwrSet(loads[Head(jobs).load].value, clock)
        /\ (GetReturns(i) /\ Head(jobs).mode = "fg" /\ callers[i].got # NoEntry
                /\ clock < callers[i].got.freshUntil) =>
               /\ callers'[i].pc = "done"
               /\ callers'[i].result = [kind |-> "ok", value |-> callers[i].got.value]
               /\ loads' = loads
       ]_vars

\* C15 amended: the same, for a loaded value other than `undefined`.  When
\* load_from_origin resolves to `undefined`, swr returns it and stores an
\* entry, but an entry that holds `undefined` is treated as a miss: the
\* following swr calls load_from_origin again.
C15_LoadSetReturn ==
    [][\A i \in Callers :
        /\ (LoadReturns(i) /\ loads[Head(jobs).load].status = "fulfilled") =>
               /\ callers'[i].result = [kind |-> "ok", value |-> loads[Head(jobs).load].value]
               /\ state' = SwrSet(loads[Head(jobs).load].value, clock)
        /\ (GetReturns(i) /\ Head(jobs).mode = "fg" /\ callers[i].got # NoEntry
                /\ clock < callers[i].got.freshUntil) =>
               IF callers[i].got.value # Undefined
               THEN /\ callers'[i].pc = "done"
                    /\ callers'[i].result = [kind |-> "ok", value |-> callers[i].got.value]
                    /\ loads' = loads
               ELSE /\ callers'[i].pc = "loading"
                    /\ revalidating' # 0
       ]_vars

\* C15 witness: a caller has loaded and set a value, and another caller that
\* read this entry in its fresh period has returned it, with one load made.
C15_Witness ==
    /\ Len(loads) = 1
    /\ loads[1].status = "fulfilled"
    /\ loads[1].value # Undefined
    /\ \E i, k \in Callers :
           /\ i # k
           /\ callers[i].pc = "done" /\ callers[i].got = NoEntry
           /\ callers[i].result = [kind |-> "ok", value |-> loads[1].value]
           /\ callers[k].pc = "done" /\ callers[k].got # NoEntry
           /\ callers[k].got.value = loads[1].value
           /\ callers[k].result = [kind |-> "ok", value |-> loads[1].value]
           /\ clock < callers[k].got.freshUntil

\* C16: if load_from_origin fails during an swr call, swr returns an error
\* result to its caller, and so it does to every caller that waits on the
\* same load: no waiting caller is left without the load's outcome.
C16_ErrorReturned ==
    [][\A i \in Callers :
        /\ callers'[i].pc = "loading" =>
               \/ \E l \in 1..Len(loads') :
                      /\ loads'[l].status = "pending"
                      /\ \E w \in 1..Len(loads'[l].waiters) :
                             loads'[l].waiters[w] = [caller |-> i, mode |-> "fg"]
               \/ \E k \in 1..Len(jobs') :
                      /\ jobs'[k].caller = i
                      /\ jobs'[k].mode = "fg"
                      /\ jobs'[k].kind \in {"afterLoad", "afterDedupe"}
        /\ (LoadReturns(i) /\ loads[Head(jobs).load].status = "rejected") =>
               /\ callers'[i].pc = "done"
               /\ callers'[i].result.kind = "err"
       ]_vars

\* C16 witness: one load was made, it failed, and two callers got the error.
C16_Witness ==
    /\ Len(loads) = 1
    /\ loads[1].status = "rejected"
    /\ \E i, k \in Callers :
           /\ i # k
           /\ callers[i].pc = "done" /\ callers[i].result.kind = "err"
           /\ callers[k].pc = "done" /\ callers[k].result.kind = "err"

\* C17: get and swr never return the value of an entry whose stale_until
\* has passed; such an entry is treated like a missing one: get returns
\* `undefined` and swr goes on to load.
C17_ExpiredIsAbsent ==
    [][\A i \in Callers :
        (GetReturns(i) /\ callers[i].got # NoEntry /\ clock >= callers[i].got.staleUntil) =>
            IF Head(jobs).mode = "get"
            THEN callers'[i].result = [kind |-> "ok", value |-> Undefined]
            ELSE /\ callers'[i].pc = "loading"
                 /\ callers'[i].result = NoResult
       ]_vars

\* C17 witness: a swr call read an entry with a value, found it past
\* stale_until and went on to load.
C17_Witness ==
    \E i \in Callers :
        /\ callers[i].pc = "loading"
        /\ callers[i].got # NoEntry
        /\ callers[i].got.value # Undefined
        /\ callers[i].got.staleUntil <= clock

\* The background revalidation of some caller has loaded value v with load l
\* and has not yet set it.
BgLoaded(l, v) ==
    /\ l <= Len(loads)
    /\ loads[l].status = "fulfilled"
    /\ loads[l].value = v
    /\ \E k \in 1..Len(jobs) : jobs[k].load = l /\ jobs[k].mode = "bg"

FinallyDue == \E k \in 1..Len(jobs) : jobs[k].kind = "afterLoad"

\* C26, as stated: whenever no loadFromOrigin call for the key is in flight,
\* the single-flight map holds no entry for the key.
C26_Original == Pending = {} => revalidating = 0

\* C26, amended: once no loadFromOrigin call for the key is in flight and the
\* finally block of every call that awaited one has run, the single-flight
\* map holds no entry for the key, whether the loads succeeded or failed.
C26_ReleasedAfterFinally == (Pending = {} /\ ~FinallyDue) => revalidating = 0

\* after a failed load and its finally blocks, the map is empty and a later
\* swr has started a new load
C26_Witness ==
    /\ Len(loads) = 2
    /\ loads[1].status = "rejected"
    /\ loads[2].status = "pending"
    /\ ~FinallyDue
    /\ revalidating = 2

\* C27: MemoryStore.get on an entry whose expiry is at or before the current
\* time removes the entry and returns absent.
C27_ExpiredGetAbsent ==
    [][\A i \in Callers :
          (/\ callers[i].pc # "getting"
           /\ callers'[i].pc = "getting"
           /\ state # NoEntry
           /\ state.staleUntil <= clock)
          => (state' = NoEntry /\ callers'[i].got = NoEntry)]_vars

\* C29: when the background load started by swr for a stale entry fails, the
\* entry stays as it was, the swr that started it has returned the stale
\* value, and the map no longer holds the failed load; a swr that then finds
\* the stale entry and no load in the map starts a new load.
C29_BackgroundFailure ==
    [][jobs # <<>> =>
        LET j == Head(jobs)
            i == j.caller
        IN  /\ (/\ j.kind = "afterDedupe"
                /\ j.mode = "bg"
                /\ loads[j.load].status = "rejected"
                /\ bg'[i] # bg[i])
               => /\ state' = state
                  /\ callers'[i] = callers[i]
                  /\ callers[i].pc = "done"
                  /\ callers[i].result = [kind |-> "ok", value |-> callers[i].got.value]
                  /\ revalidating' # j.load
            /\ (/\ j.kind = "afterGet"
                /\ bg[i] = "none"
                /\ bg'[i] = "loading"
                /\ revalidating = 0)
               => /\ Len(loads') = Len(loads) + 1
                  /\ loads'[Len(loads')].status = "pending"
                  /\ revalidating' = Len(loads')]_vars

\* a background load failed with the entry left in place, and a later swr
\* has started a new background load
C29_Witness ==
    /\ Len(loads) = 3
    /\ loads[1].status = "fulfilled"
    /\ loads[2].status = "rejected"
    /\ loads[3].status = "pending"
    /\ state # NoEntry
    /\ state.value = loads[1].value
    /\ \E i \in Callers : bg[i] = "loading" /\ callers[i].result.kind = "ok"

\* C30: a Limit call that ends in an error response has created no
\* namespace row and incremented no counter.
C30_ErrorChangesNothing ==
    (Handled /\ lastReply.code # "OK") =>
        /\ lastReq.exists = lastReq.existed
        /\ lastCall.limit = NoCall.limit

-----------------------------------------------------------------------------
\* SwrCache.set and the reads of a TieredStore, for one (namespace, key).
\* A tier is a Store: its get and set resolve to a Result, which may be an
\* Err, or reject; a MemoryStore tier may run its eviction pass on a set.

NTiers == 2

MaxTierOps == 2

OptFresh == 2

OptStale == 3

Tiers == 1..NTiers

TierValues == 1..MaxVersion

\* "none": the store answers; "err": its calls resolve to Err(CacheError);
\* "throw": its calls reject; "evict": a MemoryStore whose map is over
\* maxItems with the key first in iteration order, so that the eviction pass
\* of a set deletes the key.
TierModes == {"none", "err", "throw", "evict"}

Failing(m) == m \in {"err", "throw"}

NoOpts == [fresh |-> -1, stale |-> -1]

SetOpts == {NoOpts, [fresh |-> OptFresh, stale |-> OptStale]}

\* SwrCache.set: the entry handed to the store
SwrSetOpts(value, now, opts) ==
    [value |-> value,
     freshUntil |-> now + (IF opts = NoOpts THEN Fresh ELSE opts.fresh),
     staleUntil |-> now + (IF opts = NoOpts THEN Stale ELSE opts.stale)]

NoOp == [n |-> 0, op |-> "none", result |-> "none", tier |-> 0, entry |-> NoEntry,
         value |-> 0, opts |-> NoOpts, now |-> 0,
         modes |-> [t \in Tiers |-> "none"], before |-> [t \in Tiers |-> NoEntry],
         held |-> {}]

TieredInit ==
    /\ tiers = [t \in Tiers |-> NoEntry]
    /\ tmode = [t \in Tiers |-> "none"]
    /\ backfill = <<>>
    /\ tnow = 0
    /\ top = NoOp
    /\ RIdle /\ SIdle /\ LIdle /\ CIdle /\ HIdle /\ NIdle /\ MIdle /\ FIdle /\ OIdle

\* a get loop that goes on to the next tier when a tier fails, and reports the
\* failure only when no tier answered
RECURSIVE TieredGetSkipErrors(_)
TieredGetSkipErrors(i) ==
    IF i > NTiers
    THEN IF \A t \in Tiers : Failing(tmode[t])
         THEN [result |-> "err", tier |-> NTiers, entry |-> NoEntry]
         ELSE [result |-> "miss", tier |-> 0, entry |-> NoEntry]
    ELSE IF ~Failing(tmode[i]) /\ tiers[i] # NoEntry
         THEN [result |-> "hit", tier |-> i, entry |-> tiers[i]]
         ELSE TieredGetSkipErrors(i + 1)

\* TieredStore.get, the loop from tier i on: the first tier that fails or
\* holds an entry decides
RECURSIVE TieredGetFrom(_)
TieredGetFrom(i) ==
    IF i > NTiers
    THEN [result |-> "miss", tier |-> 0, entry |-> NoEntry]
    ELSE IF Failing(tmode[i])
         THEN [result |-> tmode[i], tier |-> i, entry |-> NoEntry]
         ELSE IF tiers[i] # NoEntry
              THEN [result |-> "hit", tier |-> i, entry |-> tiers[i]]
              ELSE TieredGetFrom(i + 1)

\* the tiers a get with result r has read
Probed(r) == IF r.result = "miss" THEN Tiers ELSE 1..r.tier

\* TieredStore.get. A tier that answers removes an entry whose expiry has
\* passed (and still returns it); a hit hands Promise.all of the faster
\* tiers' thunks to ctx.waitUntil.
TieredGet ==
    /\ top.n < MaxTierOps
    /\ LET r == TieredGetFrom(1) IN
        /\ top' = [n |-> top.n + 1, op |-> "get", result |-> r.result, tier |-> r.tier,
                   entry |-> r.entry, value |-> 0, opts |-> NoOpts, now |-> tnow,
                   modes |-> tmode, before |-> tiers, held |-> {}]
        /\ tiers' = [t \in Tiers |->
                        IF /\ t \in Probed(r)
                           /\ ~Failing(tmode[t])
                           /\ tiers[t] # NoEntry
                           /\ tiers[t].staleUntil <= tnow
                        THEN NoEntry
                        ELSE tiers[t]]
        /\ backfill' = IF r.result = "hit"
                       THEN Append(backfill, [tier |-> r.tier, entry |-> r.entry])
                       ELSE backfill
    /\ UNCHANGED <<tmode, tnow>>

\* The Promise.all of a hit settles. Its elements are the functions
\* () => t.set(..), which nothing calls: no tier is written.
BackfillSettle ==
    /\ backfill # <<>>
    /\ LET b == Head(backfill) IN
        top' = [top EXCEPT !.op = "backfill", !.result = "ok", !.tier = b.tier,
                           !.entry = b.entry, !.modes = tmode, !.before = tiers,
                           !.held = {t \in Tiers : tiers[t] = b.entry}]
    /\ backfill' = Tail(backfill)
    /\ UNCHANGED <<tiers, tmode, tnow>>

\* what a tier holds after its set was called with entry e
TierAfterSet(t, e) ==
    CASE tmode[t] = "none" -> e
      [] tmode[t] = "evict" -> NoEntry
      [] OTHER -> tiers[t]

\* SwrCache.set -> TieredStore.set: every tier's set is called; the result is
\* Ok unless a call rejects.
TieredSet(v, opts) ==
    /\ top.n < MaxTierOps
    /\ LET e == SwrSetOpts(v, tnow, opts) IN
        /\ tiers' = [t \in Tiers |-> TierAfterSet(t, e)]
        /\ top' = [n |-> top.n + 1, op |-> "set",
                   result |-> IF \E t \in Tiers : tmode[t] = "throw" THEN "err" ELSE "ok",
                   tier |-> 0, entry |-> e, value |-> v, opts |-> opts, now |-> tnow,
                   modes |-> tmode, before |-> tiers,
                   held |-> {t \in Tiers : TierAfterSet(t, e) = e}]
    /\ UNCHANGED <<tmode, backfill, tnow>>

\* TieredStore.remove
TieredRemove ==
    /\ top.n < MaxTierOps
    /\ tiers' = [t \in Tiers |-> IF Failing(tmode[t]) THEN tiers[t] ELSE NoEntry]
    /\ top' = [n |-> top.n + 1, op |-> "remove",
               result |-> IF \E t \in Tiers : tmode[t] = "throw" THEN "err" ELSE "ok",
               tier |-> 0, entry |-> NoEntry, value |-> 0, opts |-> NoOpts, now |-> tnow,
               modes |-> tmode, before |-> tiers, held |-> {}]
    /\ UNCHANGED <<tmode, backfill, tnow>>

\* a tier's store drops the key on its own (the eviction pass of a set of
\* another key)
TierEvict(t) ==
    /\ tiers[t] # NoEntry
    /\ tiers' = [tiers EXCEPT ![t] = NoEntry]
    /\ UNCHANGED <<tmode, backfill, tnow, top>>

\* a tier's store starts to answer in another way
SetMode(t, m) ==
    /\ m # tmode[t]
    /\ tmode' = [tmode EXCEPT ![t] = m]
    /\ UNCHANGED <<tiers, backfill, tnow, top>>

TierTick ==
    /\ tnow < MaxTime
    /\ tnow' = tnow + 1
    /\ UNCHANGED <<tiers, tmode, backfill, top>>

TieredNext ==
    \/ TieredGet /\ UNCHANGED <<rvars, svars, lvars, cvars, hvars, nvars, mvars, fvars, ovars>>
    \/ BackfillSettle /\ UNCHANGED <<rvars, svars, lvars, cvars, hvars, nvars, mvars, fvars, ovars>>
    \/ \E v \in TierValues, opts \in SetOpts :
            TieredSet(v, opts) /\ UNCHANGED <<rvars, svars, lvars, cvars, hvars, nvars, mvars, fvars, ovars>>
    \/ TieredRemove /\ UNCHANGED <<rvars, svars, lvars, cvars, hvars, nvars, mvars, fvars, ovars>>
    \/ \E t \in Tiers : TierEvict(t) /\ UNCHANGED <<rvars, svars, lvars, cvars, hvars, nvars, mvars, fvars, ovars>>
    \/ \E t \in Tiers, m \in TierModes :
            SetMode(t, m) /\ UNCHANGED <<rvars, svars, lvars, cvars, hvars, nvars, mvars, fvars, ovars>>
    \/ TierTick /\ UNCHANGED <<rvars, svars, lvars, cvars, hvars, nvars, mvars, fvars, ovars>>

SpecTiered == TieredInit /\ [][TieredNext]_vars

-----------------------------------------------------------------------------
\* Claims about the tiered store

\* the first tier, at the time of the last operation, that failed or held an
\* entry; 0 if every tier answered "not found"
FirstDeciding ==
    IF \E t \in Tiers : Failing(top.modes[t]) \/ top.before[t] # NoEntry
    THEN CHOOSE t \in Tiers :
            /\ Failing(top.modes[t]) \/ top.before[t] # NoEntry
            /\ \A u \in 1..(t - 1) : ~Failing(top.modes[u]) /\ top.before[u] = NoEntry
    ELSE 0

\* C18, as stated: a tier's failure does not end a tiered get; get fails only
\* if every tier failed.
C18_Original ==
    (top.op = "get" /\ Failing(top.result)) => \A t \in Tiers : Failing(top.modes[t])

\* C18, amended: a tiered get ends at the first tier that fails or holds an
\* entry. If that tier failed, get returns its failure without reading the
\* tiers after it; if it held an entry, get returns the entry; get returns
\* "not found" only if every tier answered "not found".
C18_FirstFailureReturned ==
    top.op = "get" =>
        LET f == FirstDeciding IN
        IF f = 0 THEN top.result = "miss"
        ELSE IF Failing(top.modes[f])
             THEN top.result = top.modes[f] /\ top.tier = f
             ELSE top.result = "hit" /\ top.tier = f /\ top.entry = top.before[f]

\* a get that returned the first tier's error while the second tier answered
\* and held an entry
C18_Witness ==
    /\ top.op = "get"
    /\ top.result = "err"
    /\ top.tier = 1
    /\ \E t \in Tiers : ~Failing(top.modes[t]) /\ top.before[t] # NoEntry

\* C19: a tiered get returns the first hit in tier order, and once the
\* backfill of a hit in tier i has settled, every tier before i holds the
\* entry found.
C19_FirstHitAndBackfill ==
    /\ (top.op = "get" /\ top.result = "hit") =>
            /\ top.entry = top.before[top.tier]
            /\ \A u \in 1..(top.tier - 1) : top.before[u] = NoEntry
    /\ top.op = "backfill" => \A u \in 1..(top.tier - 1) : u \in top.held

\* C20: after a set with {fresh, stale} that returned Ok, every tier holds
\* the entry (v, now + fresh, now + stale).
C20_EveryTierHolds ==
    (top.op = "set" /\ top.result = "ok" /\ top.opts # NoOpts) =>
        /\ top.entry = [value |-> top.value,
                        freshUntil |-> top.now + top.opts.fresh,
                        staleUntil |-> top.now + top.opts.stale]
        /\ top.held = Tiers

\* C28: TieredStore.set and TieredStore.remove return Ok only if no tier's
\* call failed, by resolving to an Err or by rejecting.
C28_ErrorReported ==
    (top.op \in {"set", "remove"} /\ top.result = "ok") =>
        \A t \in Tiers : ~Failing(top.modes[t])

-----------------------------------------------------------------------------
\* MemoryStore: the Map of entries in iteration order, and the eviction pass
\* of set.

NKeys == 3

MaxItemsBound == 2

MaxMTime == 1

MKeys == 1..NKeys

\* the staleUntil of the entries written
MExpiries == 0..(MaxMTime + 1)

\* unstableEvictOnSet.frequency: never, some of the time, on every set
Frequencies == {"0", "between", "1"}

Min2(a, b) == IF a <= b THEN a ELSE b

IndexOfKey(m, k) ==
    IF \E x \in 1..Len(m) : m[x].key = k
    THEN CHOOSE x \in 1..Len(m) : m[x].key = k
    ELSE 0

\* Map.set: the value of a key that is present is replaced where it stands,
\* a new key goes to the end
MapSet(m, k, expires) ==
    IF IndexOfKey(m, k) # 0
    THEN [m EXCEPT ![IndexOfKey(m, k)] = [key |-> k, expires |-> expires]]
    ELSE Append(m, [key |-> k, expires |-> expires])

\* Map.delete
MapDelete(m, k) == SelectSeq(m, LAMBDA e : e.key # k)

\* this.state.forEach: delete the entries with expires < now
PurgeExpired(m, now) == SelectSeq(m, LAMBDA e : ~(e.expires < now))

\* an eviction loop that deletes from the end of the iteration order
RECURSIVE EvictNewest(_, _)
EvictNewest(m, maxItems) ==
    IF Len(m) <= maxItems \/ m = <<>> THEN m
    ELSE EvictNewest(SubSeq(m, 1, Len(m) - 1), maxItems)

\* for (const [k] of this.state): delete in iteration order until
\* size <= maxItems
RECURSIVE EvictOver(_, _)
EvictOver(m, maxItems) ==
    IF Len(m) <= maxItems \/ m = <<>> THEN m
    ELSE EvictOver(Tail(m), maxItems)

NoSet == [key |-> 0, ran |-> FALSE, now |-> 0, written |-> <<>>, after |-> <<>>]

MemoryInit ==
    /\ mstate = <<>>
    /\ mcfg \in [frequency : Frequencies, maxItems : 0..MaxItemsBound]
    /\ mnow = 0
    /\ mlast = NoSet
    /\ RIdle /\ SIdle /\ LIdle /\ CIdle /\ HIdle /\ NIdle /\ TIdle /\ FIdle /\ OIdle

\* MemoryStore.set; `random` tells whether Math.random() fell below a
\* frequency between 0 and 1
MemorySet(k, staleUntil, random) ==
    LET written == MapSet(mstate, k, staleUntil)
        ran == mcfg.frequency = "1" \/ (mcfg.frequency = "between" /\ random)
        after == IF ran THEN EvictOver(PurgeExpired(written, mnow), mcfg.maxItems) ELSE written
    IN  /\ mstate' = after
        /\ mlast' = [key |-> k, ran |-> ran, now |-> mnow, written |-> written, after |-> after]
        /\ UNCHANGED <<mcfg, mnow>>

\* MemoryStore.get: an entry whose expiry has passed is removed
MemoryGet(k) ==
    /\ IndexOfKey(mstate, k) # 0
    /\ mstate[IndexOfKey(mstate, k)].expires <= mnow
    /\ mstate' = MapDelete(mstate, k)
    /\ UNCHANGED <<mcfg, mnow, mlast>>

\* MemoryStore.remove
MemoryRemove(k) ==
    /\ IndexOfKey(mstate, k) # 0
    /\ mstate' = MapDelete(mstate, k)
    /\ UNCHANGED <<mcfg, mnow, mlast>>

MemoryTick ==
    /\ mnow < MaxMTime
    /\ mnow' = mnow + 1
    /\ UNCHANGED <<mstate, mcfg, mlast>>

MemoryNext ==
    \/ \E k \in MKeys, e \in MExpiries, random \in BOOLEAN :
            MemorySet(k, e, random) /\ UNCHANGED <<rvars, svars, lvars, cvars, hvars, nvars, tvars, fvars, ovars>>
    \/ \E k \in MKeys : MemoryGet(k) /\ UNCHANGED <<rvars, svars, lvars, cvars, hvars, nvars, tvars, fvars, ovars>>
    \/ \E k \in MKeys : MemoryRemove(k) /\ UNCHANGED <<rvars, svars, lvars, cvars, hvars, nvars, tvars, fvars, ovars>>
    \/ MemoryTick /\ UNCHANGED <<rvars, svars, lvars, cvars, hvars, nvars, tvars, fvars, ovars>>

SpecMemory == MemoryInit /\ [][MemoryNext]_vars

\* the entries of the Map written by the last set that have not expired
LiveWritten == SelectSeq(mlast.written, LAMBDA e : e.expires >= mlast.now)

\* C21: after an eviction pass on a set, the store (mlast.after) holds no
\* entry whose staleUntil is before now and at most maxItems entries, and the entries
\* removed for capacity are the first of the insertion order: what is left
\* is the end of the list of live entries.
C21_EvictionPass ==
    mlast.ran =>
        /\ \A x \in 1..Len(mlast.after) : mlast.after[x].expires >= mlast.now
        /\ Len(mlast.after) = Min2(Len(LiveWritten), mcfg.maxItems)
        /\ mlast.after = SubSeq(LiveWritten, Len(LiveWritten) - Len(mlast.after) + 1,
                                Len(LiveWritten))

\* an eviction pass that removed an expired entry and then entries over
\* maxItems, leaving some
C21_Witness ==
    /\ mlast.ran
    /\ Len(LiveWritten) < Len(mlast.written)
    /\ Len(mlast.after) < Len(LiveWritten)
    /\ mlast.after # <<>>

-----------------------------------------------------------------------------
\* Unkey.fetch of the SDK client: one request with its retries.

MaxAttempts == 2

\* what an HTTP request can come back with: a network failure (fetch
\* rejects), or a response with a status and a body that res.json() parses
\* or not
NetworkFailure == [status |-> 0, json |-> FALSE]

Statuses == {200, 302, 404, 500}

Responses == {NetworkFailure} \cup [status : Statuses, json : BOOLEAN]

Is2xx(r) == r.status >= 200 /\ r.status <= 299

Is4xx(r) == r.status >= 400 /\ r.status <= 499

NoOutcome == [kind |-> "none", of |-> 0]

\* `await res.json()` of the k-th response, returned under `result` or as
\* the ErrorResponse; it throws when the body is not JSON
JsonOf(r, k, kind) == IF r.json THEN [kind |-> kind, of |-> k] ELSE [kind |-> "throw", of |-> k]

FetchInit ==
    /\ fcfg \in 0..MaxAttempts
    /\ fpc = "loop"
    /\ fi = 0
    /\ fres = NetworkFailure
    /\ ferr = FALSE
    /\ fhist = <<>>
    /\ fout = NoOutcome
    /\ RIdle /\ SIdle /\ LIdle /\ CIdle /\ HIdle /\ NIdle /\ TIdle /\ MIdle /\ OIdle

\* one turn of the for loop: the HTTP request, the return on 2xx and 4xx,
\* else the backoff sleep and i++
FetchAttempt(r) ==
    /\ fpc = "loop"
    /\ fi <= fcfg
    /\ fhist' = Append(fhist, r)
    /\ fres' = r
    /\ ferr' = (ferr \/ r = NetworkFailure)
    /\ IF r # NetworkFailure /\ Is2xx(r)
       THEN fpc' = "done" /\ fout' = JsonOf(r, Len(fhist) + 1, "result") /\ fi' = fi
       ELSE IF r # NetworkFailure /\ Is4xx(r)
            THEN fpc' = "done" /\ fout' = JsonOf(r, Len(fhist) + 1, "error") /\ fi' = fi
            ELSE fpc' = "loop" /\ fout' = fout /\ fi' = fi + 1
    /\ UNCHANGED fcfg

\* after the loop: the last response's body as the error, or FETCH_ERROR
\* when the last request got no response
FetchGiveUp ==
    /\ fpc = "loop"
    /\ fi > fcfg
    /\ fpc' = "done"
    /\ fout' = IF fres # NetworkFailure
               THEN JsonOf(fres, Len(fhist), "error")
               ELSE [kind |-> "error", of |-> 0]
    /\ UNCHANGED <<fcfg, fi, fres, ferr, fhist>>

FetchNext ==
    \/ \E r \in Responses : FetchAttempt(r) /\ UNCHANGED <<rvars, svars, lvars, cvars, hvars, nvars, tvars, mvars, ovars>>
    \/ FetchGiveUp /\ UNCHANGED <<rvars, svars, lvars, cvars, hvars, nvars, tvars, mvars, ovars>>

SpecFetch == FetchInit /\ [][FetchNext]_vars

\* C25: one SDK request makes at most attempts + 1 HTTP requests, stops at
\* the first 2xx or 4xx response and passes its body to the caller, and ends
\* with a result or an error.
C25_BoundedRetries ==
    /\ Len(fhist) <= fcfg + 1
    /\ \A k \in 1..Len(fhist) :
            (fhist[k] # NetworkFailure /\ (Is2xx(fhist[k]) \/ Is4xx(fhist[k])))
            => /\ k = Len(fhist)
               /\ fpc = "done"
               /\ fout.of = k
    /\ fpc = "done" => fout.kind \in {"result", "error"}

-----------------------------------------------------------------------------
\* The end-to-end scenarios of the counter on a single node, in milliseconds:
\* a burst of calls within one second, and calls around the edge of a window.

BurstLimit == 10

BurstDuration == 60000

BurstCalls == 12

BurstSpan == 1000

EdgeLimit == 10

EdgeDuration == 1000

EdgeCalls == 21

EdgeSpan == 2000

\* the time between two moments at which calls are submitted
ScenarioStep == 500

\* the moments, within a window, at which the burst may begin
BurstStarts == {0, 30000, 59500}

Scenarios ==
    {[name |-> "burst", limit |-> BurstLimit, duration |-> BurstDuration,
      start |-> s, until |-> s + BurstSpan, calls |-> BurstCalls] : s \in BurstStarts}
    \cup
    {[name |-> "edge", limit |-> EdgeLimit, duration |-> EdgeDuration,
      start |-> 0, until |-> EdgeSpan, calls |-> EdgeCalls]}

ScenarioInit ==
    /\ policy \in Scenarios
    /\ ctr = FreshCounter
    /\ ctrSkip = FreshCounter
    /\ ltime = policy.start
    /\ hist = <<>>
    /\ RIdle /\ SIdle /\ CIdle /\ HIdle /\ NIdle /\ TIdle /\ MIdle /\ FIdle /\ OIdle

\* A Limit call with cost = 1 is submitted now.
ScenarioCall ==
    /\ Len(hist) < policy.calls
    /\ LET res == CounterLimit(ctr, 1, policy.limit, policy.duration, ltime) IN
        /\ ctr' = res.counter
        /\ hist' = Append(hist,
               [at |-> ltime, success |-> res.passed,
                remaining |-> Remaining(policy.limit, res.current),
                reset |-> res.reset])
    /\ UNCHANGED <<policy, ctrSkip, ltime>>

ScenarioTick ==
    /\ ltime + ScenarioStep <= policy.until
    /\ ltime' = ltime + ScenarioStep
    /\ UNCHANGED <<policy, ctr, ctrSkip, hist>>

ScenarioNext ==
    \/ ScenarioCall /\ UNCHANGED <<rvars, svars, cvars, hvars, nvars, tvars, mvars, fvars, ovars>>
    \/ ScenarioTick /\ UNCHANGED <<rvars, svars, cvars, hvars, nvars, tvars, mvars, fvars, ovars>>

SpecScenario == ScenarioInit /\ [][ScenarioNext]_vars

\* the responses of the burst are as expected: success with remaining
\* 9, 8, ..., 0 for the first 10 calls, denied with remaining 0 after them
BurstDecisions ==
    \A i \in 1..Len(hist) :
        IF i <= BurstLimit
        THEN hist[i].success /\ hist[i].remaining = BurstLimit - i
        ELSE ~hist[i].success /\ hist[i].remaining = 0

\* C23, as stated: the burst's decisions, and every reset within
\* [now + 59000, now + 60000], now being the time of the burst.
C23_Original ==
    policy.name = "burst" =>
        /\ BurstDecisions
        /\ \A i \in 1..Len(hist) :
                /\ hist[i].reset >= policy.start + BurstDuration - BurstSpan
                /\ hist[i].reset <= policy.start + BurstDuration

\* C23, amended: the burst's decisions, and every reset is the end of the
\* window its call falls in: after the call and at most 60000 later; it is
\* within [now + 59000, now + 60000] when the burst begins at the start of a
\* window.
C23_Burst ==
    policy.name = "burst" =>
        /\ BurstDecisions
        /\ \A i \in 1..Len(hist) :
                /\ hist[i].reset = WindowStart(hist[i].at, BurstDuration) + BurstDuration
                /\ hist[i].reset > hist[i].at
                /\ hist[i].reset <= hist[i].at + BurstDuration
                /\ policy.start = WindowStart(policy.start, BurstDuration)
                   => /\ hist[i].reset >= policy.start + BurstDuration - BurstSpan
                      /\ hist[i].reset <= policy.start + BurstDuration

\* the 12 calls of a burst that begins in the middle of a window
C23_Witness ==
    /\ policy.name = "burst"
    /\ Len(hist) = BurstCalls
    /\ policy.start # WindowStart(policy.start, BurstDuration)
    /\ hist[BurstCalls].reset < policy.start + BurstDuration - BurstSpan

\* the calls so far are 10 at t = 0, then one at t = 500, then calls at
\* t = 1500
EdgeRun ==
    /\ policy.name = "edge"
    /\ Len(hist) > EdgeLimit
    /\ \A i \in 1..EdgeLimit : hist[i].at = 0
    /\ hist[EdgeLimit + 1].at = ScenarioStep
    /\ \A i \in (EdgeLimit + 2)..Len(hist) : hist[i].at = EdgeDuration + ScenarioStep

\* C24, as stated: the 10 calls at t = 0 pass, the call at t = 500 passes
\* with remaining = 4, and of the calls at t = 1500 the first 5 pass and the
\* following ones are denied.
C24_Original ==
    EdgeRun =>
        /\ \A i \in 1..EdgeLimit : hist[i].success
        /\ hist[EdgeLimit + 1].success /\ hist[EdgeLimit + 1].remaining = 4
        /\ \A i \in (EdgeLimit + 2)..Len(hist) : hist[i].success <=> i <= EdgeLimit + 6

\* C24, amended: the 10 calls at t = 0 pass; the call at t = 500 falls in
\* the same window, whose count is 10, and is denied with remaining = 0; of
\* the calls at t = 1500 the first 5 pass, with remaining 4, 3, 2, 1, 0, and
\* the following ones are denied.
C24_SlidingEdge ==
    EdgeRun =>
        /\ \A i \in 1..EdgeLimit : hist[i].success /\ hist[i].remaining = EdgeLimit - i
        /\ ~hist[EdgeLimit + 1].success /\ hist[EdgeLimit + 1].remaining = 0
        /\ \A i \in (EdgeLimit + 2)..Len(hist) :
                IF i <= EdgeLimit + 6
                THEN hist[i].success /\ hist[i].remaining = EdgeLimit + 6 - i
                ELSE ~hist[i].success /\ hist[i].remaining = 0

\* the whole run: 10 calls at t = 0, one at t = 500, 10 at t = 1500
C24_Witness ==
    /\ EdgeRun
    /\ Len(hist) = EdgeCalls
    /\ hist[EdgeLimit + 6].success
    /\ ~hist[EdgeCalls].success

-----------------------------------------------------------------------------
\* The age of the override data a Limit call is decided with: the loader
\* reads the namespace and its overrides from db.readonly, and the handler
\* takes them through cache.ratelimitByIdentifier.swr.  The cache's periods
\* are Fresh and Stale (10 s and 60 s in the design).

MaxOVersion == 2

MaxOTime == 4

OVersions == 0..MaxOVersion

NoRead == [at |-> -1, current |-> FALSE]

NoLimitCall == [at |-> -1, version |-> 0, readAt |-> -1, current |-> FALSE, primary |-> 0]

OverrideInit ==
    /\ oprimary = 0
    /\ oreplica = 0
    /\ osuper = [v \in OVersions |-> -1]
    /\ oentry = NoEntry
    /\ oreadAt = NoRead
    /\ otime = 0
    /\ olast = NoLimitCall
    /\ RIdle /\ SIdle /\ LIdle /\ CIdle /\ HIdle /\ NIdle /\ TIdle /\ MIdle /\ FIdle

\* An override is created, changed or deleted on the primary.
OverrideWrite ==
    /\ oprimary < MaxOVersion
    /\ oprimary' = oprimary + 1
    /\ osuper' = [osuper EXCEPT ![oprimary] = otime]
    /\ UNCHANGED <<oreplica, oentry, oreadAt, otime, olast>>

\* The read replica catches up by one write.
OverrideReplicate ==
    /\ oreplica < oprimary
    /\ oreplica' = oreplica + 1
    /\ UNCHANGED <<oprimary, osuper, oentry, oreadAt, otime, olast>>

\* One Limit call: swr returns the entry's value while the entry is not past
\* staleUntil, and reloads it when it is past freshUntil; on a miss the
\* loader's result is returned and set.  The loader reads db.readonly.  The
\* cached value is the version read, plus one.
OverrideLimit ==
    LET g == SwrGet(oentry, otime)
        hit == g.value # Undefined
        read == [at |-> otime, current |-> oreplica = oprimary]
        reload == ~hit \/ g.revalidate
        used == IF hit THEN oreadAt ELSE read
    IN  /\ olast' = [at |-> otime,
                     version |-> IF hit THEN g.value - 1 ELSE oreplica,
                     readAt |-> used.at,
                     current |-> used.current,
                     primary |-> oprimary]
        /\ oentry' = IF reload THEN SwrSet(oreplica + 1, otime) ELSE oentry
        /\ oreadAt' = IF reload THEN read ELSE oreadAt
        /\ UNCHANGED <<oprimary, oreplica, osuper, otime>>

OverrideTick ==
    /\ otime < MaxOTime
    /\ otime' = otime + 1
    /\ UNCHANGED <<oprimary, oreplica, osuper, oentry, oreadAt, olast>>

OverrideNext ==
    \/ OverrideWrite /\ UNCHANGED <<rvars, svars, lvars, cvars, hvars, nvars, tvars, mvars, fvars>>
    \/ OverrideReplicate /\ UNCHANGED <<rvars, svars, lvars, cvars, hvars, nvars, tvars, mvars, fvars>>
    \/ OverrideLimit /\ UNCHANGED <<rvars, svars, lvars, cvars, hvars, nvars, tvars, mvars, fvars>>
    \/ OverrideTick /\ UNCHANGED <<rvars, svars, lvars, cvars, hvars, nvars, tvars, mvars, fvars>>

SpecOverride == OverrideInit /\ [][OverrideNext]_vars

\* the version the last call was decided with was still the primary's at
\* the call, or was replaced no more than the stale period before the call
WithinStaleOfPrimary ==
    \/ olast.version = olast.primary
    \/ /\ osuper[olast.version] # -1
       /\ olast.at - osuper[olast.version] <= Stale

=============================================================================
